---- MODULE Spec2Model ----
(***************************************************************************)
(* Model of src/agent-runtime/mcp-tool-adapter.ts: the MCPToolAdapter      *)
(* connection registry, its retry loops and its error classifier.          *)
(*                                                                         *)
(* JavaScript runs each async function to its next await without           *)
(* interruption, so every action below is one such run-to-completion       *)
(* segment of one caller; the callers interleave at the awaits.            *)
(*                                                                         *)
(* Text (error messages, server names) is a sequence of one-character      *)
(* strings, so that concatenation, substring search and case folding are   *)
(* computed as the code computes them.                                     *)
(***************************************************************************)
EXTENDS Integers, Sequences, FiniteSets, TLC

(* ------------------------------ bounds -------------------------------- *)

\* Number of concurrent callers of the adapter.
NumCallers == 2
\* Number of Client/StdioClientTransport pairs that may be constructed.
MaxClients == 3
\* Largest value of the wall clock (new Date()).
MaxTime == 1
\* Largest maxRetries a constructed adapter is given.
MaxRetriesBound == 2

(* ------------------------------- text --------------------------------- *)

UpperCase == <<"A","B","C","D","E","F","G","H","I","J","K","L","M",
               "N","O","P","Q","R","S","T","U","V","W","X","Y","Z">>
LowerCase == <<"a","b","c","d","e","f","g","h","i","j","k","l","m",
               "n","o","p","q","r","s","t","u","v","w","x","y","z">>

\* Case folding of one character, as the /i flag of a RegExp does for ASCII.
Fold(ch) ==
    IF ch \in {UpperCase[i] : i \in 1..26}
    THEN LowerCase[CHOOSE i \in 1..26 : UpperCase[i] = ch]
    ELSE ch

\* pat occurs in s starting right after position i.
OccursAt(s, pat, i) ==
    /\ i + Len(pat) <= Len(s)
    /\ \A j \in 1..Len(pat) : s[i + j] = pat[j]

\* String.prototype.includes / an unanchored literal RegExp.
Contains(s, pat) == \E i \in 0..Len(s) : OccursAt(s, pat, i)

\* The characters the RegExp "." does not match.
LineTerminators == {"\n", "\r"}

\* An unanchored RegExp  a.*b : a, then any run without a line terminator, then b.
ContainsThen(s, a, b) ==
    \E i \in 0..Len(s) :
        /\ OccursAt(s, a, i)
        /\ \E j \in (i + Len(a))..Len(s) :
               /\ OccursAt(s, b, j)
               /\ \A k \in (i + Len(a) + 1)..j : s[k] \notin LineTerminators

\* The same with the /i flag: each character of s is folded as it is compared
\* (the patterns are in lower case).
OccursAtIgnoreCase(s, pat, i) ==
    /\ i + Len(pat) <= Len(s)
    /\ \A j \in 1..Len(pat) : Fold(s[i + j]) = pat[j]

ContainsIgnoreCase(s, pat) == \E i \in 0..Len(s) : OccursAtIgnoreCase(s, pat, i)

ContainsThenIgnoreCase(s, a, b) ==
    \E i \in 0..Len(s) :
        /\ OccursAtIgnoreCase(s, a, i)
        /\ \E j \in (i + Len(a))..Len(s) :
               /\ OccursAtIgnoreCase(s, b, j)
               /\ \A k \in (i + Len(a) + 1)..j : s[k] \notin LineTerminators

Digits == <<"0","1","2","3","4","5","6","7","8","9">>

\* A template literal's rendering of a non-negative integer.
RECURSIVE NumberToString(_)
NumberToString(n) ==
    IF n < 10 THEN <<Digits[n + 1]>>
    ELSE NumberToString(n \div 10) \o <<Digits[(n % 10) + 1]>>

\* The value undefined where a string is expected (error?: string).
Undefined == <<"<undefined>">>

\* A template literal's rendering of a string that may be undefined.
Interpolate(s) ==
    IF s = Undefined THEN <<"u","n","d","e","f","i","n","e","d">> ELSE s

(* ------------------------- error classifier --------------------------- *)

\* retryablePatterns: each pattern in its case-folded form.
PatTimeout      == <<"t","i","m","e","o","u","t">>
PatConnection   == <<"c","o","n","n","e","c","t","i","o","n">>
PatRefused      == <<"r","e","f","u","s","e","d">>
PatEconnreset   == <<"e","c","o","n","n","r","e","s","e","t">>
PatEconnrefused == <<"e","c","o","n","n","r","e","f","u","s","e","d">>
PatEtimedout    == <<"e","t","i","m","e","d","o","u","t">>
PatNetwork      == <<"n","e","t","w","o","r","k">>
PatUnavailable  == <<"u","n","a","v","a","i","l","a","b","l","e">>

\* Mutant: the patterns lack the /i flag.
isRetryableError_caseSensitive(error) ==
    IF error = Undefined \/ error = <<>> THEN FALSE
    ELSE \/ Contains(error, PatTimeout)
         \/ ContainsThen(error, PatConnection, PatRefused)
         \/ Contains(error, PatEconnreset)
         \/ Contains(error, PatEconnrefused)
         \/ Contains(error, PatEtimedout)
         \/ Contains(error, PatNetwork)
         \/ Contains(error, PatUnavailable)

isRetryableError(error) ==
    IF error = Undefined \/ error = <<>> THEN FALSE
    ELSE \/ ContainsIgnoreCase(error, PatTimeout)
         \/ ContainsThenIgnoreCase(error, PatConnection, PatRefused)
         \/ ContainsIgnoreCase(error, PatEconnreset)
         \/ ContainsIgnoreCase(error, PatEconnrefused)
         \/ ContainsIgnoreCase(error, PatEtimedout)
         \/ ContainsIgnoreCase(error, PatNetwork)
         \/ ContainsIgnoreCase(error, PatUnavailable)

\* Arguments for the classifier: phrases in lower case, each written in
\* lower case, in upper case and capitalised, alone and inside a sentence;
\* the empty string and undefined.
Phrases ==
    {<<"t","i","m","e","o","u","t">>,
     <<"c","o","n","n","e","c","t","i","o","n"," ","r","e","f","u","s","e","d">>,
     <<"c","o","n","n","e","c","t","i","o","n"," ","w","a","s"," ","r","e","f","u","s","e","d">>,
     <<"r","e","f","u","s","e","d"," ","c","o","n","n","e","c","t","i","o","n">>,
     <<"c","o","n","n","e","c","t","i","o","n","\n","r","e","f","u","s","e","d">>,
     <<"e","c","o","n","n","r","e","s","e","t">>,
     <<"e","c","o","n","n","r","e","f","u","s","e","d">>,
     <<"e","t","i","m","e","d","o","u","t">>,
     <<"n","e","t","w","o","r","k">>,
     <<"u","n","a","v","a","i","l","a","b","l","e">>,
     <<"i","n","v","a","l","i","d"," ","a","r","g","u","m","e","n","t">>,
     <<"t","i","m","e"," ","o","u","t">>,
     <<"n","o","t"," ","f","o","u","n","d">>,
     <<"n","e","t","w","r","k">>,
     <<"c","o","n","n","e","c","t","i","o","n"," ","r","e","s","e","t">>,
     <<"r","e","f","u","s","e","d">>}

Upper(ch) ==
    IF \E i \in 1..26 : LowerCase[i] = ch
    THEN UpperCase[CHOOSE i \in 1..26 : LowerCase[i] = ch]
    ELSE ch

UpperAll(s) == [i \in 1..Len(s) |-> Upper(s[i])]
Capitalised(s) == [i \in 1..Len(s) |-> IF i = 1 THEN Upper(s[i]) ELSE s[i]]

Messages ==
    {Undefined, <<>>}
    \cup { before \o written \o after :
               before \in {<<>>, <<"E","r","r","o","r",":"," ">>},
               written \in UNION {{w, UpperAll(w), Capitalised(w)} : w \in Phrases},
               after \in {<<>>, <<" ","(","c","o","d","e"," ","7",")">>} }

(* ----------------------- the adapter's environment -------------------- *)

\* Server names the callers use.
NameTestServer == <<"t","e","s","t","-","s","e","r","v","e","r">>
NameNetwork    == <<"n","e","t","w","o","r","k">>
Names == {NameTestServer, NameNetwork}

\* Messages of the errors client.callTool may reject with.
MsgETIMEDOUT       == <<"E","T","I","M","E","D","O","U","T">>
MsgUnavailable     == <<"N","e","t","w","o","r","k"," ","u","n","a","v","a","i","l","a","b","l","e">>
MsgInvalidArgument == <<"I","n","v","a","l","i","d"," ","a","r","g","u","m","e","n","t">>
MsgToolCallFailed  == <<"T","o","o","l"," ","c","a","l","l"," ","f","a","i","l","e","d">>
MsgEmpty           == <<>>
CallErrors ==
    {MsgETIMEDOUT, MsgUnavailable, MsgInvalidArgument, MsgToolCallFailed, MsgEmpty}

\* Messages of the errors client.connect may reject with.
MsgConnectionFailed == <<"C","o","n","n","e","c","t","i","o","n"," ","f","a","i","l","e","d">>
MsgECONNREFUSED     == <<"E","C","O","N","N","R","E","F","U","S","E","D">>
ConnectErrors == {MsgConnectionFailed, MsgECONNREFUSED}

\* Response payloads of client.callTool; NoData is an absent data field.
Payloads == {"result", "success"}
NoData == "<none>"

\* Tool descriptors a server answers client.listTools with: the fields the
\* adapter reads and one it does not.
RemoteTestTool ==
    [name |-> "test_tool", description |-> "A test tool", inputSchema |-> "object",
     annotations |-> "readOnly"]
RemoteOtherTool ==
    [name |-> "other_tool", description |-> NoData, inputSchema |-> NoData,
     annotations |-> NoData]
ToolLists ==
    {<<>>, <<RemoteTestTool>>, <<RemoteTestTool, RemoteOtherTool>>,
     <<RemoteOtherTool, RemoteTestTool>>}

\* MCPServerConfig values the callers pass to connect.
Commands == {"node", "npx"}
Configs == [name : Names, command : Commands, args : {<<"test.js">>}]
NoConfig == [name |-> <<>>, command |-> "", args |-> <<>>]

(* ----------------------------- retry config --------------------------- *)

DEFAULT_RETRY_CONFIG ==
    [maxRetries |-> 3, initialDelayMs |-> 1000,
     maxDelayMs |-> 30000, backoffMultiplier |-> 2]

\* Partial<RetryConfig> values handed to the constructor: a function on the
\* fields that are given.  maxRetries is always given, to bound the loops.
PartialRetryConfigs ==
    { [maxRetries |-> n, initialDelayMs |-> 10, maxDelayMs |-> 100] :
          n \in 0..MaxRetriesBound }
    \cup { [maxRetries |-> MaxRetriesBound, initialDelayMs |-> 50, maxDelayMs |-> 30,
            backoffMultiplier |-> 3] }

\* { ...DEFAULT_RETRY_CONFIG, ...retryConfig }
Spread(base, over) ==
    [k \in DOMAIN base |-> IF k \in DOMAIN over THEN over[k] ELSE base[k]]

Min(a, b) == IF a < b THEN a ELSE b

\* Math.min(delay * backoffMultiplier, maxDelayMs)
nextDelay(cfg, delay) == Min(delay * cfg.backoffMultiplier, cfg.maxDelayMs)

(* ------------------------------- state -------------------------------- *)

Callers == 1..NumCallers
\* Identities of the Client/StdioClientTransport pairs; NoRef is "no object".
Refs == 1..MaxClients
NoRef == 0

VARIABLES
    retryConfig,  \* this.retryConfig
    connections,  \* this.connections: a Map, kept in insertion order
    objs,         \* the ConnectionState objects, by the identity of their client
    clients,      \* the Client objects: handshake status and whether close was called
    now,          \* the wall clock read by new Date()
    pc,           \* where each caller's async call is suspended
    frame,        \* each caller's operation, arguments and local variables
    hist,         \* history of each caller's current call (observation only)
    probe         \* a function of the module, its argument and its result

vars == <<retryConfig, connections, objs, clients, now, pc, frame, hist, probe>>

\* No function has been applied.  The output counts once applied is TRUE;
\* error is the class of the Error the function threw or rejected with;
\* pending is TRUE while the promise of an async function has not settled.
NoError == "none"
NoProbe ==
    [fn |-> "none", input |-> <<>>, applied |-> FALSE, pending |-> FALSE,
     output |-> <<>>, error |-> NoError]

(* ----------------------- Map<string, ConnectionState> ----------------- *)

MapIndex(m, k) == CHOOSE i \in 1..Len(m) : m[i].name = k
MapHas(m, k) == \E i \in 1..Len(m) : m[i].name = k
MapGet(m, k) == IF MapHas(m, k) THEN m[MapIndex(m, k)].ref ELSE NoRef
\* Mutant: set never replaces, it always adds an entry.
MapSet_alwaysAppends(m, k, r) == Append(m, [name |-> k, ref |-> r])

MapSet(m, k, r) ==
    IF MapHas(m, k) THEN [m EXCEPT ![MapIndex(m, k)].ref = r]
    ELSE Append(m, [name |-> k, ref |-> r])
MapDelete(m, k) ==
    LET keep == {i \in 1..Len(m) : m[i].name # k}
        Pos(j) == CHOOSE i \in keep : Cardinality({x \in keep : x < i}) = j - 1
    IN [j \in 1..Cardinality(keep) |-> m[Pos(j)]]
\* Mutant: only the first key is listed.
MapKeys_first(m) == IF m = <<>> THEN <<>> ELSE <<m[1].name>>

MapKeys(m) == [i \in 1..Len(m) |-> m[i].name]
MapKeySet(m) == {m[i].name : i \in 1..Len(m)}

(* ------------------------------ records ------------------------------- *)

\* A ConnectionState that has not been constructed.
NoState ==
    [config |-> NoConfig, connected |-> FALSE, lastActivity |-> 0, retryCount |-> 0]

\* A Client that has not been constructed.
NoClient == [status |-> "free", closeCalled |-> FALSE]

\* How a call ended: it returned a value or threw an Error.  For an
\* MCPToolResult the fields success, data and error are the value's.
NoResult == [kind |-> "none",   success |-> FALSE, data |-> NoData, error |-> Undefined]
Returned(success, data, error) ==
    [kind |-> "return", success |-> success, data |-> data, error |-> error]
ReturnedVoid == Returned(TRUE, NoData, Undefined)
Thrown(message) ==
    [kind |-> "throw",  success |-> FALSE, data |-> NoData, error |-> message]

IdleFrame ==
    [op |-> "none", name |-> <<>>, config |-> NoConfig, attempt |-> 0, delay |-> 0,
     lastError |-> Undefined, result |-> NoResult, ref |-> NoRef, pending |-> {},
     cursor |-> 0, allTools |-> <<>>]

\* What a caller's current call has done so far, and the registry it started from.
\* attempts: turns of the retry loop; tcalls, opens, closes: calls of
\* client.callTool or client.listTools, client.connect, client.close; oks, fails: how many of
\* the transport's answers were successes, failures; first, last: its first
\* and its latest answer; settled: what the latest callTool or connect of
\* the call settled with; callAt: the time of the latest client.callTool;
\* connectSeen: for a disconnectAll, whether a connect of another caller was
\* in flight at some time since it started; disconnectAfter: whether another
\* caller called disconnect or disconnectAll after this call settled;
\* completed: for a disconnectAll, the names for which a connect of another
\* caller returned while it was in progress.
IdleHist ==
    [attempts |-> 0, tcalls |-> 0, opens |-> 0, closes |-> 0, sleeps |-> <<>>,
     oks |-> 0, fails |-> 0, first |-> NoResult, last |-> NoResult,
     settled |-> NoResult, callAt |-> 0, connectSeen |-> FALSE,
     disconnectAfter |-> FALSE, completed |-> {},
     preConnections |-> <<>>, preObjs |-> [r \in Refs |-> NoState]]

\* The transport answered a caller: a success (with a payload) or an Error.
Answered(g, answer) ==
    [g EXCEPT !.first = IF g.oks + g.fails = 0 THEN answer ELSE @,
              !.last = answer,
              !.oks = IF answer.kind = "return" THEN @ + 1 ELSE @,
              !.fails = IF answer.kind = "throw" THEN @ + 1 ELSE @]

(* ------------------------------- Init --------------------------------- *)

\* new MCPToolAdapter(retryConfig): an empty registry.
InitAdapter(partials) ==
    /\ retryConfig \in {Spread(DEFAULT_RETRY_CONFIG, p) : p \in partials}
    /\ connections = <<>>
    /\ objs = [r \in Refs |-> NoState]
    /\ clients = [r \in Refs |-> NoClient]
    /\ now = 0
    /\ frame = [c \in Callers |-> IdleFrame]
    /\ hist = [c \in Callers |-> IdleHist]

\* No caller calls into the adapter.
NoCallers == pc = [c \in Callers |-> "off"]

\* All callers may call into the adapter.
Init ==
    /\ InitAdapter({[maxRetries |-> 1, initialDelayMs |-> 10, maxDelayMs |-> 100]})
    /\ pc = [c \in Callers |-> "idle"]
    /\ probe = NoProbe

\* One caller at a time: the others never call.
InitSeq ==
    /\ InitAdapter(PartialRetryConfigs)
    /\ pc = [c \in Callers |-> IF c = 1 THEN "idle" ELSE "off"]
    /\ probe = NoProbe

\* One caller at a time, one retry.
InitClock ==
    /\ InitAdapter({[maxRetries |-> 1, initialDelayMs |-> 10, maxDelayMs |-> 100]})
    /\ pc = [c \in Callers |-> IF c = 1 THEN "idle" ELSE "off"]
    /\ probe = NoProbe

\* One run-to-completion segment of caller c ends: its new position, frame
\* and history, and the adapter's new fields.
\* The positions at which a caller's local variable (connection, client) holds
\* an object, as f.ref; disconnectAll's pending disconnects hold one each.
HoldsRef == {"connect_await", "callTool_await", "disconnect_await", "listTools_await"}

\* Garbage collection.  An object is reachable through the registry or a
\* suspended caller's local variable.  An unreachable ConnectionState is gone;
\* an unreachable Client is gone too unless its transport is still open (its
\* handshake succeeded and close was never called): that one is kept, as the
\* server process it stands for is.
Reachable(r, conns, pcs, frames) ==
    \/ \E i \in 1..Len(conns) : conns[i].ref = r
    \/ \E c \in Callers : pcs[c] \in HoldsRef /\ frames[c].ref = r
    \/ \E c \in Callers : \E p \in frames[c].pending : p.ref = r

Leaked(r, conns, pcs, frames, cl) ==
    /\ ~Reachable(r, conns, pcs, frames)
    /\ cl[r].status = "open"
    /\ ~cl[r].closeCalled

CollectObjs(conns, pcs, frames, os) ==
    [r \in Refs |-> IF Reachable(r, conns, pcs, frames) THEN os[r] ELSE NoState]

CollectClients(conns, pcs, frames, cl) ==
    [r \in Refs |->
        IF Reachable(r, conns, pcs, frames) \/ Leaked(r, conns, pcs, frames, cl)
        THEN cl[r] ELSE NoClient]

\* A caller that was at position q comes to position p with frame f: its
\* connect has returned without an error.
ConnectReturns(q, p, f) ==
    /\ f.op = "connect"
    /\ q # "done"
    /\ p = "done"
    /\ f.result.kind = "return"

\* A caller at position p with frame f is inside connect or connectWithRetry.
Connecting(p, f) ==
    /\ p \notin {"off", "idle"}
    /\ f.op \in {"connect", "connectWithRetry"} \/ p = "connect_await"

Commit(c, p, f, g, conns, os, cl) ==
    LET pcs == [pc EXCEPT ![c] = p]
        frames == [frame EXCEPT ![c] = f]
    IN /\ pc' = pcs
       /\ frame' = frames
       /\ hist' = [d \in Callers |->
                       IF d = c THEN g
                       ELSE [hist[d] EXCEPT
                                !.connectSeen =
                                    \/ @
                                    \/ /\ Connecting(p, f)
                                       /\ frame[d].op = "disconnectAll",
                                !.completed =
                                    IF /\ ConnectReturns(pc[c], p, f)
                                       /\ pc[d] = "disconnectAll_await"
                                    THEN @ \cup {f.config.name} ELSE @,
                                !.disconnectAfter =
                                    \/ @
                                    \/ /\ pc[d] = "done"
                                       /\ pc[c] = "idle"
                                       /\ f.op \in {"disconnect", "disconnectAll"}]]
       /\ connections' = conns
       /\ objs' = CollectObjs(conns, pcs, frames, os)
       /\ clients' = CollectClients(conns, pcs, frames, cl)
       /\ UNCHANGED <<retryConfig, now, probe>>

(* ------------------------------ callTool ------------------------------ *)

StrServer       == <<"S","e","r","v","e","r"," ">>
StrNotConnected == <<" ","n","o","t"," ","c","o","n","n","e","c","t","e","d">>
StrDisconnected == <<" ","i","s"," ","d","i","s","c","o","n","n","e","c","t","e","d">>

\* Mutant: the absent server is reported with the other early return's message.
notConnectedResult_wrongMessage(serverName) ==
    Returned(FALSE, NoData, StrServer \o serverName \o StrDisconnected)

\* { success: false, error: `Server ${serverName} not connected` }
notConnectedResult(serverName) ==
    Returned(FALSE, NoData, StrServer \o serverName \o StrNotConnected)

\* { success: false, error: `Server ${serverName} is disconnected` }
disconnectedResult(serverName) ==
    Returned(FALSE, NoData, StrServer \o serverName \o StrDisconnected)

\* callTool's promise settles with f.result: a direct caller has its answer,
\* callToolWithRetry resumes in a later segment.
callTool_settle(c, f, g, conns, os, cl) ==
    LET f1 == [f EXCEPT !.ref = NoRef]
        g1 == [g EXCEPT !.settled = f.result]
    IN IF f.op = "callTool"
       THEN Commit(c, "done", f1, g1, conns, os, cl)
       ELSE Commit(c, "callTool_settled", f1, g1, conns, os, cl)

\* callTool up to its await: the lookup, the two early returns, the
\* lastActivity stamp and the start of client.callTool.
callTool_begin(c, f, g, conns, os, cl) ==
    LET connection == MapGet(conns, f.name) IN
    IF connection = NoRef
    THEN callTool_settle(c, [f EXCEPT !.result = notConnectedResult(f.name)],
                         g, conns, os, cl)
    ELSE IF ~os[connection].connected
    THEN callTool_settle(c, [f EXCEPT !.result = disconnectedResult(f.name)],
                         g, conns, os, cl)
    ELSE Commit(c, "callTool_await",
                [f EXCEPT !.ref = connection],
                [g EXCEPT !.tcalls = @ + 1, !.callAt = now],
                conns,
                [os EXCEPT ![connection].lastActivity = now],
                cl)

\* Mutant: lastActivity is stamped when the response arrives.
callTool_then_stampOnReturn(c, f, g, conns, os, cl, data) ==
    callTool_settle(c, [f EXCEPT !.result = Returned(TRUE, data, Undefined)], g,
                    conns,
                    [os EXCEPT ![f.ref].retryCount = 0, ![f.ref].lastActivity = now],
                    cl)

\* After the await, client.callTool resolved with the payload data.
callTool_then(c, f, g, conns, os, cl, data) ==
    callTool_settle(c, [f EXCEPT !.result = Returned(TRUE, data, Undefined)], g,
                    conns, [os EXCEPT ![f.ref].retryCount = 0], cl)

\* Mutant: the catch block is missing and the rejection leaves callTool.
callTool_catch_rethrow(c, f, g, conns, os, cl, message) ==
    callTool_settle(c, [f EXCEPT !.result = Thrown(message)], g, conns, os, cl)

\* Mutant: the catch block marks the connection disconnected.
callTool_catch_markDisconnected(c, f, g, conns, os, cl, message) ==
    callTool_settle(c, [f EXCEPT !.result = Returned(FALSE, NoData, message)], g,
                    conns, [os EXCEPT ![f.ref].connected = FALSE], cl)

\* Mutant: the catch block drops the entry whose call failed.
callTool_catch_dropsEntry(c, f, g, conns, os, cl, message) ==
    callTool_settle(c, [f EXCEPT !.result = Returned(FALSE, NoData, message)], g,
                    MapDelete(conns, f.name), os, cl)

\* After the await, client.callTool rejected with an Error of this message.
callTool_catch(c, f, g, conns, os, cl, message) ==
    callTool_settle(c, [f EXCEPT !.result = Returned(FALSE, NoData, message)], g,
                    conns, os, cl)

(* -------------------------- callToolWithRetry ------------------------- *)

StrFailedAfter == <<"F","a","i","l","e","d"," ","a","f","t","e","r"," ">>
StrAttempts    == <<" ","a","t","t","e","m","p","t","s",":"," ">>

\* `Failed after ${maxRetries + 1} attempts: ${lastError}`
failedAfterResult(cfg, lastError) ==
    Returned(FALSE, NoData,
             StrFailedAfter \o NumberToString(cfg.maxRetries + 1) \o StrAttempts
                 \o Interpolate(lastError))

\* Mutant: the loop runs one turn too many.
callToolWithRetry_more_offByOne(cfg, attempt) == attempt <= cfg.maxRetries + 1

\* The loop condition  attempt <= this.retryConfig.maxRetries.
callToolWithRetry_more(cfg, attempt) == attempt <= cfg.maxRetries

\* Mutant: the classifier is not consulted and every failure is retried.
callToolWithRetry_giveUp_never(result) == FALSE

\* if (!this.isRetryableError(result.error)) return result;
callToolWithRetry_giveUp(result) == ~isRetryableError(result.error)

\* Mutant: only the first failure is remembered.
callToolWithRetry_lastError_keepFirst(lastError, result) ==
    IF lastError = Undefined THEN result.error ELSE lastError

\* lastError = result.error;
callToolWithRetry_lastError(lastError, result) == result.error

\* The head of the for loop: the next attempt, or the result after the loop.
callToolWithRetry_loop(c, f, g, conns, os, cl) ==
    IF callToolWithRetry_more(retryConfig, f.attempt)
    THEN callTool_begin(c, f, [g EXCEPT !.attempts = @ + 1], conns, os, cl)
    ELSE Commit(c, "done",
                [f EXCEPT !.result = failedAfterResult(retryConfig, f.lastError)],
                g, conns, os, cl)

\* Mutant: the next attempt follows at once, without a sleep.
callToolWithRetry_backoff_noSleep(c, f, g, conns, os, cl) ==
    callToolWithRetry_loop(c, [f EXCEPT !.attempt = @ + 1], g, conns, os, cl)

\* Mutant: the loop sleeps after its last attempt too.
callToolWithRetry_backoff_sleepsAfterLast(c, f, g, conns, os, cl) ==
    IF f.attempt <= retryConfig.maxRetries
    THEN Commit(c, "sleep", f, [g EXCEPT !.sleeps = Append(@, f.delay)],
                conns, os, cl)
    ELSE callToolWithRetry_loop(c, [f EXCEPT !.attempt = @ + 1], g, conns, os, cl)

\* The end of the loop body: sleep before the next attempt, none after the last.
callToolWithRetry_backoff(c, f, g, conns, os, cl) ==
    IF f.attempt < retryConfig.maxRetries
    THEN Commit(c, "sleep", f, [g EXCEPT !.sleeps = Append(@, f.delay)],
                conns, os, cl)
    ELSE callToolWithRetry_loop(c, [f EXCEPT !.attempt = @ + 1], g, conns, os, cl)

(* ------------------------ connect and disconnect ---------------------- *)

\* connect's promise settles with f.result.  A direct caller has its answer;
\* connectWithRetry resumes in a later segment; callToolWithRetry swallows a
\* rejection of its reconnect and goes on to its backoff.
connect_settle(c, f, g, conns, os, cl) ==
    LET f1 == [f EXCEPT !.ref = NoRef]
        g1 == [g EXCEPT !.settled = f.result]
    IN IF f.op = "connect"
       THEN Commit(c, "done", f1, g1, conns, os, cl)
       ELSE IF f.op = "connectWithRetry"
       THEN Commit(c, "connect_settled", f1, g1, conns, os, cl)
       ELSE callToolWithRetry_backoff(c, f1, g1, conns, os, cl)

\* new StdioClientTransport, new Client, and the start of client.connect.
connect_open(c, f, g, conns, os, cl) ==
    IF \A r \in Refs : cl[r].status # "free"
    THEN FALSE
    ELSE LET client == CHOOSE r \in Refs :
                           /\ cl[r].status = "free"
                           /\ \A q \in Refs : cl[q].status = "free" => r <= q
         IN Commit(c, "connect_await",
                   [f EXCEPT !.ref = client],
                   [g EXCEPT !.opens = @ + 1],
                   conns, os,
                   [cl EXCEPT ![client].status = "connecting"])

\* disconnect's promise settles: a direct caller is done, connect goes on
\* to open the new transport.
disconnect_settle(c, f, g, conns, os, cl) ==
    IF f.op = "disconnect"
    THEN Commit(c, "done", [f EXCEPT !.result = ReturnedVoid, !.ref = NoRef],
                g, conns, os, cl)
    ELSE connect_open(c, f, g, conns, os, cl)

\* Mutant: disconnect of a name that is not registered throws.
disconnect_begin_rejectsAbsent(c, f, g, conns, os, cl) ==
    LET connection == MapGet(conns, f.name) IN
    IF connection # NoRef
    THEN Commit(c, "disconnect_await",
                [f EXCEPT !.ref = connection],
                [g EXCEPT !.closes = @ + 1],
                conns, os,
                [cl EXCEPT ![connection].closeCalled = TRUE])
    ELSE Commit(c, "done", [f EXCEPT !.result = Thrown(StrNotConnected)],
                g, conns, os, cl)

\* disconnect up to its await: the lookup and the start of client.close.
disconnect_begin(c, f, g, conns, os, cl) ==
    LET connection == MapGet(conns, f.name) IN
    IF connection # NoRef
    THEN Commit(c, "disconnect_await",
                [f EXCEPT !.ref = connection],
                [g EXCEPT !.closes = @ + 1],
                conns, os,
                [cl EXCEPT ![connection].closeCalled = TRUE])
    ELSE disconnect_settle(c, f, g, conns, os, cl)

\* Mutant: the entry is kept when client.close rejected.
disconnect_finally_keepsOnError(c, f, g, conns, os, cl) ==
    disconnect_settle(c, f, g,
                      IF g.last.kind = "throw" THEN conns
                      ELSE MapDelete(conns, f.name),
                      os, cl)

\* After the await (close resolved or rejected alike): delete the entry.
disconnect_finally(c, f, g, conns, os, cl) ==
    disconnect_settle(c, f, g, MapDelete(conns, f.name), os, cl)

\* Mutant: connect does not look for an existing entry.
connect_begin_reopens(c, f, g, conns, os, cl) ==
    connect_open(c, f, g, conns, os, cl)

\* connect up to its first await.
connect_begin(c, f, g, conns, os, cl) ==
    IF MapHas(conns, f.config.name)
    THEN LET existing == MapGet(conns, f.config.name) IN
         IF os[existing].connected
         THEN connect_settle(c, [f EXCEPT !.result = ReturnedVoid], g, conns, os, cl)
         ELSE disconnect_begin(c, [f EXCEPT !.name = f.config.name], g, conns, os, cl)
    ELSE connect_open(c, f, g, conns, os, cl)

\* Mutant: the entry is registered with connected == false.
connect_then_registersDisconnected(c, f, g, conns, os, cl) ==
    connect_settle(c, [f EXCEPT !.result = ReturnedVoid], g,
                   MapSet(conns, f.config.name, f.ref),
                   [os EXCEPT ![f.ref] =
                       [config |-> f.config, connected |-> FALSE,
                        lastActivity |-> now, retryCount |-> 0]],
                   [cl EXCEPT ![f.ref].status = "open"])

\* After the await, client.connect resolved: this.connections.set(...).
connect_then(c, f, g, conns, os, cl) ==
    connect_settle(c, [f EXCEPT !.result = ReturnedVoid], g,
                   MapSet(conns, f.config.name, f.ref),
                   [os EXCEPT ![f.ref] =
                       [config |-> f.config, connected |-> TRUE,
                        lastActivity |-> now, retryCount |-> 0]],
                   [cl EXCEPT ![f.ref].status = "open"])

\* Mutant: the entry is registered although the handshake failed.
connect_throw_insertsStale(c, f, g, conns, os, cl, message) ==
    connect_settle(c, [f EXCEPT !.result = Thrown(message)], g,
                   MapSet(conns, f.config.name, f.ref),
                   [os EXCEPT ![f.ref] =
                       [config |-> f.config, connected |-> FALSE,
                        lastActivity |-> now, retryCount |-> 0]],
                   [cl EXCEPT ![f.ref].status = "failed"])

\* After the await, client.connect rejected: the error leaves connect.
connect_throw(c, f, g, conns, os, cl, message) ==
    connect_settle(c, [f EXCEPT !.result = Thrown(message)], g, conns, os,
                   [cl EXCEPT ![f.ref].status = "failed"])

(* --------------------------- connectWithRetry ------------------------- *)

StrFailedToConnect == <<"F","a","i","l","e","d"," ","t","o"," ","c","o","n","n","e","c","t"," ","t","o"," ">>
StrAfter           == <<" ","a","f","t","e","r"," ">>

\* Mutant: the message counts the retries, not the attempts.
failedToConnectError_countsRetries(cfg, name, lastMessage) ==
    Thrown(StrFailedToConnect \o name \o StrAfter
               \o NumberToString(cfg.maxRetries) \o StrAttempts
               \o Interpolate(lastMessage))

\* new Error(`Failed to connect to ${config.name} after ${maxRetries + 1}
\*            attempts: ${lastError?.message}`)
failedToConnectError(cfg, name, lastMessage) ==
    Thrown(StrFailedToConnect \o name \o StrAfter
               \o NumberToString(cfg.maxRetries + 1) \o StrAttempts
               \o Interpolate(lastMessage))

\* Mutant: the loop runs one turn too many.
connectWithRetry_more_offByOne(cfg, attempt) == attempt <= cfg.maxRetries + 1

\* The loop condition  attempt <= this.retryConfig.maxRetries.
connectWithRetry_more(cfg, attempt) == attempt <= cfg.maxRetries

\* The head of the for loop: the next connect, or the throw after the loop.
connectWithRetry_loop(c, f, g, conns, os, cl) ==
    IF connectWithRetry_more(retryConfig, f.attempt)
    THEN connect_begin(c, f, [g EXCEPT !.attempts = @ + 1], conns, os, cl)
    ELSE Commit(c, "done",
                [f EXCEPT !.result =
                    failedToConnectError(retryConfig, f.config.name, f.lastError)],
                g, conns, os, cl)

\* Mutant: the catch block awaits a promise that never settles.
connectWithRetry_catch_hangs(c, f, g, conns, os, cl) ==
    Commit(c, "connect_settled", f, g, conns, os, cl)

\* The catch block: remember the error, sleep unless this was the last attempt.
connectWithRetry_catch(c, f, g, conns, os, cl) ==
    LET f1 == [f EXCEPT !.lastError = f.result.error] IN
    IF f1.attempt < retryConfig.maxRetries
    THEN Commit(c, "sleep", f1, [g EXCEPT !.sleeps = Append(@, f1.delay)],
                conns, os, cl)
    ELSE connectWithRetry_loop(c, [f1 EXCEPT !.attempt = @ + 1], g, conns, os, cl)

(* ----------------------- listTools and listAllTools ------------------- *)

\* { name: tool.name, description: tool.description, inputSchema: ... }
MCPToolDefinition(tool) ==
    [name |-> tool.name, description |-> tool.description,
     inputSchema |-> tool.inputSchema]

\* result.tools.map(...)
MapTools(tools) == [i \in 1..Len(tools) |-> MCPToolDefinition(tools[i])]

\* listTools' promise settles with f.result: a direct caller has its answer,
\* listAllTools resumes in a later segment.
listTools_settle(c, f, g, conns, os, cl) ==
    LET f1 == [f EXCEPT !.ref = NoRef]
        g1 == [g EXCEPT !.settled = f.result]
    IN IF f.op = "listTools"
       THEN Commit(c, "done", f1, g1, conns, os, cl)
       ELSE Commit(c, "listTools_settled", f1, g1, conns, os, cl)

\* listTools up to its await: the lookup, the early return, the lastActivity
\* stamp and the start of client.listTools.
listTools_begin(c, f, g, conns, os, cl) ==
    LET connection == MapGet(conns, f.name) IN
    IF connection = NoRef \/ ~os[connection].connected
    THEN listTools_settle(c, [f EXCEPT !.result = Returned(TRUE, <<>>, Undefined)],
                          g, conns, os, cl)
    ELSE Commit(c, "listTools_await",
                [f EXCEPT !.ref = connection],
                [g EXCEPT !.tcalls = @ + 1, !.callAt = now],
                conns,
                [os EXCEPT ![connection].lastActivity = now],
                cl)

\* Mutant: the connection the call holds is put back into the registry.
listTools_then_reinserts(c, f, g, conns, os, cl, tools) ==
    listTools_settle(c, [f EXCEPT !.result = Returned(TRUE, MapTools(tools), Undefined)],
                     g, MapSet(conns, f.name, f.ref), os, cl)

\* After the await, client.listTools resolved with these tools.
listTools_then(c, f, g, conns, os, cl, tools) ==
    listTools_settle(c, [f EXCEPT !.result = Returned(TRUE, MapTools(tools), Undefined)],
                     g, conns, os, cl)

\* Mutant: the catch block is missing and the rejection leaves listTools.
listTools_catch_rethrow(c, f, g, conns, os, cl, message) ==
    listTools_settle(c, [f EXCEPT !.result = Thrown(message)], g, conns, os, cl)

\* After the await, client.listTools rejected: catch { return []; }
listTools_catch(c, f, g, conns, os, cl, message) ==
    listTools_settle(c, [f EXCEPT !.result = Returned(TRUE, <<>>, Undefined)],
                     g, conns, os, cl)

\* allTools.set(serverName, tools) on the Map being built.
AllToolsSet(m, k, tools) ==
    IF \E i \in 1..Len(m) : m[i].name = k
    THEN [i \in 1..Len(m) |-> IF m[i].name = k THEN [name |-> k, tools |-> tools]
                                              ELSE m[i]]
    ELSE Append(m, [name |-> k, tools |-> tools])

\* The for...of over this.connections: the entry under the iterator, or the
\* return of allTools after the last.  f.cursor is the number of entries the
\* iterator has passed.
listAllTools_loop(c, f, g, conns, os, cl) ==
    IF f.cursor < Len(conns)
    THEN listTools_begin(c, [f EXCEPT !.name = conns[f.cursor + 1].name],
                         g, conns, os, cl)
    ELSE Commit(c, "done",
                [f EXCEPT !.result = Returned(TRUE, f.allTools, Undefined)],
                g, conns, os, cl)

(* ------------------------------- views -------------------------------- *)

\* isConnected(serverName): connection?.connected ?? false
isConnected(serverName) ==
    LET connection == MapGet(connections, serverName) IN
    IF connection = NoRef THEN FALSE ELSE objs[connection].connected

\* getConnectedServers(): the names of the connected entries, in Map order.
getConnectedServers ==
    LET Connected(e) == objs[e.ref].connected
        entries == SelectSeq(connections, Connected)
    IN [i \in 1..Len(entries) |-> entries[i].name]

\* Mutant: the statistics carry the client too.
getConnectionStats_exposesClient ==
    [name \in MapKeySet(connections) |->
        LET state == objs[MapGet(connections, name)] IN
        [connected |-> state.connected, lastActivity |-> state.lastActivity,
         retryCount |-> state.retryCount, client |-> MapGet(connections, name)]]

\* getConnectionStats(): a Map from every registered name to three fields of
\* its ConnectionState.
getConnectionStats ==
    [name \in MapKeySet(connections) |->
        LET state == objs[MapGet(connections, name)] IN
        [connected |-> state.connected, lastActivity |-> state.lastActivity,
         retryCount |-> state.retryCount]]

(* ---------------------------- loadMCPConfig --------------------------- *)

\* An absent env of a server or of an MCPServerConfig; an env is the ordered
\* list of its key/value pairs.
NoEnv == [present |-> FALSE, pairs |-> <<>>]
SomeEnv(pairs) == [present |-> TRUE, pairs |-> pairs]

\* Names of environment variables, and names every object inherits from
\* Object.prototype with String() of what they hold.
VarApiKey   == <<"A","P","I","_","K","E","Y">>
VarToString == <<"t","o","S","t","r","i","n","g">>
InheritedProperties ==
    [n \in {VarToString} |-> <<"f","u","n","c","t","i","o","n"," ","t","o","S","t","r","i","n","g","(",")"," ","{"," ","[","n","a","t","i","v","e"," ","c","o","d","e","]"," ","}">>]

\* The process environments the loader runs in: API_KEY unset, set to the
\* empty string, set to a value.
ProcessEnvs ==
    {[n \in {} |-> <<>>],
     [n \in {VarApiKey} |-> <<>>],
     [n \in {VarApiKey} |-> <<"e","n","v","-","a","p","i","-","k","e","y">>]}

\* process.env[varName]: the variable if it is set, else what the property
\* lookup finds up the prototype chain, else undefined.
processEnvGet(penv, varName) ==
    IF varName \in DOMAIN penv THEN penv[varName]
    ELSE IF varName \in DOMAIN InheritedProperties THEN InheritedProperties[varName]
    ELSE Undefined

\* The replacer function:  process.env[varName] || ''
replacer(penv, varName) ==
    LET found == processEnvGet(penv, varName) IN
    IF found = Undefined \/ found = <<>> THEN <<>> ELSE found

\* Where a match of /\$\{([^}]+)\}/ that starts at position i of s ends, or 0:
\* "${", one or more characters other than "}", and "}".
MatchEnd(s, i) ==
    IF /\ i + 1 <= Len(s)
       /\ s[i] = "$"
       /\ s[i + 1] = "{"
       /\ \E k \in (i + 3)..Len(s) :
              s[k] = "}" /\ \A x \in (i + 2)..(k - 1) : s[x] # "}"
    THEN CHOOSE k \in (i + 3)..Len(s) :
             s[k] = "}" /\ \A x \in (i + 2)..(k - 1) : s[x] # "}"
    ELSE 0

\* value.replace(/\$\{([^}]+)\}/g, replacer) from position i on: the matches
\* from left to right, none overlapping, each replaced; the rest copied.
RECURSIVE ReplaceFrom(_, _, _)
ReplaceFrom(s, i, penv) ==
    IF i > Len(s) THEN <<>>
    ELSE LET k == MatchEnd(s, i) IN
         IF k = 0 THEN <<s[i]>> \o ReplaceFrom(s, i + 1, penv)
         ELSE replacer(penv, SubSeq(s, i + 2, k - 1)) \o ReplaceFrom(s, k + 1, penv)

resolveEnvVariables(env, penv) ==
    IF ~env.present THEN NoEnv
    ELSE SomeEnv([i \in 1..Len(env.pairs) |->
                     [key |-> env.pairs[i].key,
                      value |-> ReplaceFrom(env.pairs[i].value, 1, penv)]])

\* Mutant: every server passes the filter.
notDisabled_keepsAll(server) == TRUE

\* .filter(([, server]) => !server.disabled): the field is true, false or
\* absent.
notDisabled(server) == server.disabled # "true"

\* The entries of config.mcpServers, in the order of Object.entries, filtered
\* and mapped to MCPServerConfig values.
loadMCPConfig_entries(mcpServers, penv) ==
    LET NotDisabled(entry) == notDisabled(entry)
        kept == SelectSeq(mcpServers, NotDisabled)
    IN [i \in 1..Len(kept) |->
           [name |-> kept[i].name, command |-> kept[i].command,
            args |-> kept[i].args,
            env |-> resolveEnvVariables(kept[i].env, penv)]]

\* What is at the path: no readable file, text that is not JSON, the JSON
\* text null, a JSON object without mcpServers, or a document with its
\* mcpServers.
FileUnreadable == "unreadable"
FileMalformed  == "malformed"
FileNull       == "null"
FileNoServers  == "noServers"
FileDocument   == "document"
UnusableFiles == {FileUnreadable, FileMalformed, FileNull, FileNoServers}

\* The class of what loadMCPConfig rejects with, NoError when it resolves:
\* fs.readFile rejects with a system Error (ENOENT, EACCES), JSON.parse
\* throws a SyntaxError, reading mcpServers of null and Object.entries of
\* undefined throw a TypeError.  Nothing is caught or wrapped.
loadMCPConfig_error(file) ==
    IF file = FileUnreadable THEN "Error"
    ELSE IF file = FileMalformed THEN "SyntaxError"
    ELSE IF file \in {FileNull, FileNoServers} THEN "TypeError"
    ELSE NoError

\* The descriptors loadMCPConfig resolves with.
loadMCPConfig(file, mcpServers, penv) ==
    IF loadMCPConfig_error(file) # NoError THEN <<>>
    ELSE loadMCPConfig_entries(mcpServers, penv)

\* The documents the loader reads: up to two servers of different names,
\* each with or without env and with or without a disabled field.
NameDisabledServer == <<"d","i","s","a","b","l","e","d","-","s","e","r","v","e","r">>
EnvValues ==
    {<<"$","{","A","P","I","_","K","E","Y","}">>,
     <<"t","e","s","t","-","k","e","y">>,
     <<"B","e","a","r","e","r"," ","$","{","A","P","I","_","K","E","Y","}",":","$","{","M","I","S","S","I","N","G","}">>,
     <<"$","{","}">>,
     <<"$","{","t","o","S","t","r","i","n","g","}">>,
     <<"$","{","A","P","I","_","K","E","Y">>,
     <<"x","$","{","M","I","S","S","I","N","G","}","y">>}
ServerEnvs ==
    {NoEnv, SomeEnv(<<>>)}
    \cup {SomeEnv(<<[key |-> VarApiKey, value |-> v]>>) : v \in EnvValues}
    \cup {SomeEnv(<<[key |-> <<"M","O","D","E">>, value |-> <<"t","e","s","t">>],
                    [key |-> VarApiKey, value |-> <<"$","{","A","P","I","_","K","E","Y","}">>]>>)}
Servers ==
    [name : {NameTestServer, NameDisabledServer}, command : {"node"},
     args : {<<"test.js">>}, env : ServerEnvs, disabled : {"absent", "false", "true"}]
Documents ==
    {<<>>} \cup {<<a>> : a \in Servers}
           \cup {<<a, b>> : a \in {x \in Servers : x.name = NameTestServer},
                            b \in {x \in Servers : x.name = NameDisabledServer}}
           \cup {<<b, a>> : a \in {x \in Servers : x.name = NameTestServer
                                                   /\ x.disabled = "true"},
                            b \in {x \in Servers : x.name = NameDisabledServer
                                                   /\ x.env = NoEnv}}

\* What loadMCPConfig finds: a file that cannot be used, or a document, and
\* a process environment.
LoaderInputs ==
    {[file |-> f, mcpServers |-> <<>>, env |-> e] :
         f \in UnusableFiles, e \in ProcessEnvs}
    \cup {[file |-> FileDocument, mcpServers |-> d, env |-> e] :
              d \in Documents, e \in ProcessEnvs}

(* ------------------------------ actions ------------------------------- *)

\* A call starts.  The registry it starts from is recorded when no other
\* caller can change it meanwhile: only then is "the registry before the
\* call" something the state at its return can be compared with.
StartHist(c) ==
    IF \A d \in Callers \ {c} : pc[d] = "off"
    THEN [IdleHist EXCEPT !.preConnections = connections, !.preObjs = objs]
    ELSE IdleHist

\* A caller calls connect(config).
Connect(c, config) ==
    /\ pc[c] = "idle"
    /\ connect_begin(c, [IdleFrame EXCEPT !.op = "connect", !.config = config,
                                          !.name = config.name],
                     StartHist(c), connections, objs, clients)

\* A caller calls connectWithRetry(config).
ConnectWithRetry(c, config) ==
    /\ pc[c] = "idle"
    /\ connectWithRetry_loop(c, [IdleFrame EXCEPT !.op = "connectWithRetry",
                                     !.config = config, !.name = config.name,
                                     !.delay = retryConfig.initialDelayMs],
                             StartHist(c), connections, objs, clients)

\* client.connect settles: the handshake succeeded or failed.
HandshakeReturns(c, errors) ==
    /\ pc[c] = "connect_await"
    /\ \/ connect_then(c, frame[c], Answered(hist[c], ReturnedVoid),
                       connections, objs, clients)
       \/ \E message \in errors :
              connect_throw(c, frame[c], Answered(hist[c], Thrown(message)),
                            connections, objs, clients, message)

\* connectWithRetry resumes after its await of connect.
ConnectWithRetryResume(c) ==
    /\ pc[c] = "connect_settled"
    /\ LET f == frame[c]
           g == hist[c]
       IN IF f.result.kind = "return"
          THEN Commit(c, "done", f, g, connections, objs, clients)
          ELSE connectWithRetry_catch(c, f, g, connections, objs, clients)

\* A caller calls callTool(serverName, toolName, args).
CallTool(c, serverName) ==
    /\ pc[c] = "idle"
    /\ callTool_begin(c, [IdleFrame EXCEPT !.op = "callTool", !.name = serverName],
                      StartHist(c), connections, objs, clients)

\* A caller calls callToolWithRetry(serverName, toolName, args).
CallToolWithRetry(c, serverName) ==
    /\ pc[c] = "idle"
    /\ callToolWithRetry_loop(c, [IdleFrame EXCEPT !.op = "callToolWithRetry",
                                      !.name = serverName,
                                      !.delay = retryConfig.initialDelayMs],
                              StartHist(c), connections, objs, clients)

\* client.callTool settles: a response payload or an error.
CallReturns(c, payloads, errors) ==
    /\ pc[c] = "callTool_await"
    /\ \/ \E data \in payloads :
              callTool_then(c, frame[c],
                            Answered(hist[c], Returned(TRUE, data, Undefined)),
                            connections, objs, clients, data)
       \/ \E message \in errors :
              callTool_catch(c, frame[c], Answered(hist[c], Thrown(message)),
                             connections, objs, clients, message)

\* callToolWithRetry resumes after its await of callTool.
CallToolWithRetryResume(c) ==
    /\ pc[c] = "callTool_settled"
    /\ LET result == frame[c].result
           g == hist[c]
           f == [frame[c] EXCEPT
                    !.lastError = callToolWithRetry_lastError(@, result)]
           connection == MapGet(connections, f.name)
       IN IF result.kind = "throw" \/ result.success
          THEN Commit(c, "done", frame[c], g, connections, objs, clients)
          ELSE IF callToolWithRetry_giveUp(result)
          THEN Commit(c, "done", f, g, connections, objs, clients)
          ELSE IF connection # NoRef /\ ~objs[connection].connected
          THEN connect_begin(c, [f EXCEPT !.config = objs[connection].config],
                             g, connections, objs, clients)
          ELSE callToolWithRetry_backoff(c, f, g, connections, objs, clients)

\* The timer of sleep(delay) fires: the delay grows and the loop goes round.
SleepReturns(c) ==
    /\ pc[c] = "sleep"
    /\ LET f == [frame[c] EXCEPT !.delay = nextDelay(retryConfig, @),
                                 !.attempt = @ + 1]
       IN IF f.op = "connectWithRetry"
          THEN connectWithRetry_loop(c, f, hist[c], connections, objs, clients)
          ELSE callToolWithRetry_loop(c, f, hist[c], connections, objs, clients)

\* A caller calls disconnect(serverName).
Disconnect(c, serverName) ==
    /\ pc[c] = "idle"
    /\ disconnect_begin(c, [IdleFrame EXCEPT !.op = "disconnect", !.name = serverName],
                        StartHist(c), connections, objs, clients)

\* client.close settles, resolved or rejected.
CloseReturns(c) ==
    /\ pc[c] = "disconnect_await"
    /\ \E ok \in BOOLEAN :
           disconnect_finally(c, frame[c],
                              Answered(hist[c], IF ok THEN ReturnedVoid
                                                      ELSE Thrown(<<>>)),
                              connections, objs, clients)

\* A caller calls disconnectAll(): every disconnect runs to its await, and
\* holds its connection until its client.close settles.
DisconnectAll(c) ==
    /\ pc[c] = "idle"
    /\ LET serverNames == MapKeys(connections)
           pending == {[name |-> serverNames[i],
                        ref |-> MapGet(connections, serverNames[i])] :
                           i \in 1..Len(serverNames)}
           f == [IdleFrame EXCEPT !.op = "disconnectAll", !.pending = pending]
           g == [StartHist(c) EXCEPT
                    !.closes = Len(serverNames),
                    !.connectSeen =
                        \E d \in Callers \ {c} :
                            pc[d] # "done" /\ Connecting(pc[d], frame[d])]
           cl == [r \in Refs |-> IF \E p \in pending : p.ref = r
                                 THEN [clients[r] EXCEPT !.closeCalled = TRUE]
                                 ELSE clients[r]]
       IN Commit(c, IF pending = {} THEN "done" ELSE "disconnectAll_await",
                 [f EXCEPT !.result = IF pending = {} THEN ReturnedVoid ELSE NoResult],
                 g, connections, objs, cl)

\* Mutant: a rejected client.close rejects disconnectAll and the other
\* disconnects are abandoned.
DisconnectAllCloseReturns_failFast(c) ==
    /\ pc[c] = "disconnectAll_await"
    /\ \E p \in frame[c].pending : \E ok \in BOOLEAN :
           LET left == IF ok THEN frame[c].pending \ {p} ELSE {}
               f == [frame[c] EXCEPT !.pending = left]
               g == Answered(hist[c], IF ok THEN ReturnedVoid ELSE Thrown(<<>>))
           IN Commit(c, IF left = {} THEN "done" ELSE "disconnectAll_await",
                     [f EXCEPT !.result = IF ~ok THEN Thrown(<<>>)
                                          ELSE IF left = {} THEN ReturnedVoid
                                          ELSE NoResult],
                     g, MapDelete(connections, p.name), objs, clients)

\* One of disconnectAll's client.close calls settles (resolved or rejected
\* alike) and its disconnect deletes the entry; Promise.all resolves after
\* the last.
DisconnectAllCloseReturns(c) ==
    /\ pc[c] = "disconnectAll_await"
    /\ \E p \in frame[c].pending : \E ok \in BOOLEAN :
           LET f == [frame[c] EXCEPT !.pending = @ \ {p}]
               g == Answered(hist[c], IF ok THEN ReturnedVoid ELSE Thrown(<<>>))
           IN Commit(c, IF f.pending = {} THEN "done" ELSE "disconnectAll_await",
                     [f EXCEPT !.result = IF f.pending = {} THEN ReturnedVoid ELSE NoResult],
                     g, MapDelete(connections, p.name), objs, clients)

\* A caller calls listTools(serverName).
ListTools(c, serverName) ==
    /\ pc[c] = "idle"
    /\ listTools_begin(c, [IdleFrame EXCEPT !.op = "listTools", !.name = serverName],
                       StartHist(c), connections, objs, clients)

\* client.listTools settles: a list of tools or an error.
ListToolsReturns(c, toolLists, errors) ==
    /\ pc[c] = "listTools_await"
    /\ \/ \E tools \in toolLists :
              listTools_then(c, frame[c],
                             Answered(hist[c], Returned(TRUE, tools, Undefined)),
                             connections, objs, clients, tools)
       \/ \E message \in errors :
              listTools_catch(c, frame[c], Answered(hist[c], Thrown(message)),
                              connections, objs, clients, message)

\* A caller calls listAllTools().
ListAllTools(c) ==
    /\ pc[c] = "idle"
    /\ listAllTools_loop(c, [IdleFrame EXCEPT !.op = "listAllTools"],
                         StartHist(c), connections, objs, clients)

\* Mutant: a server whose list is empty is left out of the result.
ListAllToolsResume_skipsEmpty(c) ==
    /\ pc[c] = "listTools_settled"
    /\ LET tools == frame[c].result.data
           f == [frame[c] EXCEPT
                    !.allTools = IF tools = <<>> THEN @
                                 ELSE AllToolsSet(@, frame[c].name, tools),
                    !.cursor = @ + 1]
       IN listAllTools_loop(c, f, hist[c], connections, objs, clients)

\* listAllTools resumes after its await of listTools: the tools are stored
\* under the name and the iteration goes on.
ListAllToolsResume(c) ==
    /\ pc[c] = "listTools_settled"
    /\ LET f == [frame[c] EXCEPT
                    !.allTools = AllToolsSet(@, frame[c].name, frame[c].result.data),
                    !.cursor = @ + 1]
       IN listAllTools_loop(c, f, hist[c], connections, objs, clients)

\* The caller takes the outcome of its call and is free to call again.
Return(c) ==
    /\ pc[c] = "done"
    /\ Commit(c, "idle", IdleFrame, IdleHist, connections, objs, clients)

\* isRetryableError is applied to the drawn message.
Classify ==
    /\ probe.fn = "isRetryableError"
    /\ ~probe.applied
    /\ probe' = [probe EXCEPT !.applied = TRUE,
                              !.output = isRetryableError(probe.input)]
    /\ UNCHANGED <<retryConfig, connections, objs, clients, now, pc, frame, hist>>

\* loadMCPConfig is applied to the drawn document in the drawn environment.
LoadMCPConfig ==
    /\ probe.fn = "loadMCPConfig"
    /\ ~probe.applied
    /\ probe' = [probe EXCEPT
                    !.applied = TRUE,
                    !.output = loadMCPConfig(probe.input.file, probe.input.mcpServers,
                                             probe.input.env),
                    !.error = loadMCPConfig_error(probe.input.file)]
    /\ UNCHANGED <<retryConfig, connections, objs, clients, now, pc, frame, hist>>

\* createMCPToolAdapter up to Promise.allSettled: the adapter is new, the
\* config is loaded (a rejection of loadMCPConfig rejects the call), and one
\* connectWithRetry per descriptor is about to be started, in order.
CreateMCPToolAdapter ==
    /\ probe.fn = "createMCPToolAdapter"
    /\ ~probe.applied
    /\ ~probe.pending
    /\ LET error == loadMCPConfig_error(probe.input.file)
           configs == loadMCPConfig(probe.input.file, probe.input.mcpServers,
                                    probe.input.env)
       IN IF error # NoError
          THEN /\ probe' = [probe EXCEPT !.applied = TRUE, !.error = error]
               /\ UNCHANGED pc
          ELSE /\ probe' = [probe EXCEPT !.pending = TRUE, !.output = configs]
               /\ pc' = [c \in Callers |-> IF c <= Len(configs) THEN "idle" ELSE pc[c]]
    /\ UNCHANGED <<retryConfig, connections, objs, clients, now, frame, hist>>

\* configs.map((config) => adapter.connectWithRetry(config)): the next
\* descriptor's connectWithRetry runs up to its first await.
CreateMCPToolAdapterConnects(c) ==
    /\ probe.pending
    /\ \A d \in Callers : d < c => pc[d] # "idle"
    /\ ConnectWithRetry(c, [name |-> probe.output[c].name,
                            command |-> probe.output[c].command,
                            args |-> probe.output[c].args])

\* The map has run: every connectWithRetry is past its first await.
Mapped == probe.pending /\ \A c \in Callers : pc[c] # "idle"

\* Every connectWithRetry has settled.
AllSettled == Mapped /\ \A c \in Callers : pc[c] \in {"off", "done"}

\* Mutant: Promise.all in place of Promise.allSettled, a failed
\* connectWithRetry rejects the call.
CreateMCPToolAdapterReturns_all ==
    /\ AllSettled
    /\ probe' = [probe EXCEPT
                    !.applied = TRUE, !.pending = FALSE,
                    !.error = IF \E c \in Callers : frame[c].result.kind = "throw"
                              THEN "Error" ELSE NoError]
    /\ UNCHANGED <<retryConfig, connections, objs, clients, now, pc, frame, hist>>

\* Promise.allSettled resolves, whatever the connects settled with, and
\* the adapter is returned.
CreateMCPToolAdapterReturns ==
    /\ AllSettled
    /\ probe' = [probe EXCEPT !.applied = TRUE, !.pending = FALSE]
    /\ UNCHANGED <<retryConfig, connections, objs, clients, now, pc, frame, hist>>

\* Time passes.
Tick ==
    /\ now < MaxTime
    /\ now' = now + 1
    /\ UNCHANGED <<retryConfig, connections, objs, clients, pc, frame, hist, probe>>

\* The adapter with its callers and its transport: the callers pass these
\* configs and server names, client.callTool answers with these payloads or
\* errors and client.connect fails with these errors.
NextOf(configs, serverNames, payloads, callErrors, connectErrors) ==
    \/ \E c \in Callers : \E config \in configs : Connect(c, config)
    \/ \E c \in Callers : \E config \in configs : ConnectWithRetry(c, config)
    \/ \E c \in Callers : HandshakeReturns(c, connectErrors)
    \/ \E c \in Callers : ConnectWithRetryResume(c)
    \/ \E c \in Callers : \E serverName \in serverNames : CallTool(c, serverName)
    \/ \E c \in Callers : \E serverName \in serverNames : CallToolWithRetry(c, serverName)
    \/ \E c \in Callers : CallReturns(c, payloads, callErrors)
    \/ \E c \in Callers : CallToolWithRetryResume(c)
    \/ \E c \in Callers : SleepReturns(c)
    \/ \E c \in Callers : \E serverName \in serverNames : Disconnect(c, serverName)
    \/ \E c \in Callers : CloseReturns(c)
    \/ \E c \in Callers : DisconnectAll(c)
    \/ \E c \in Callers : DisconnectAllCloseReturns(c)
    \/ \E c \in Callers : Return(c)

\* Concurrent callers in a small world, the clock standing still.
Next ==
    NextOf({c \in Configs : c.command = "node" /\ c.name = NameTestServer},
           {NameTestServer}, {"result"},
           {MsgETIMEDOUT, MsgInvalidArgument}, {MsgConnectionFailed})

Spec == Init /\ [][Next]_vars

\* One caller at a time in the whole world, the clock standing still.
NextSeq == NextOf(Configs, Names, Payloads, CallErrors, ConnectErrors)

SpecSeq == InitSeq /\ [][NextSeq]_vars

\* One caller at a time, the clock running.
NextClock ==
    \/ NextOf(Configs, Names, {"result"}, {MsgETIMEDOUT, MsgInvalidArgument},
              {MsgConnectionFailed})
    \/ Tick

SpecClock == InitClock /\ [][NextClock]_vars

\* Concurrent callers of connect, disconnect and disconnectAll on two names.
NextRegistry ==
    \/ \E c \in Callers : \E config \in {x \in Configs : x.command = "node"} :
           Connect(c, config)
    \/ \E c \in Callers : HandshakeReturns(c, {MsgConnectionFailed})
    \/ \E c \in Callers : \E serverName \in Names : Disconnect(c, serverName)
    \/ \E c \in Callers : CloseReturns(c)
    \/ \E c \in Callers : DisconnectAll(c)
    \/ \E c \in Callers : DisconnectAllCloseReturns(c)
    \/ \E c \in Callers : Return(c)

SpecRegistry == Init /\ [][NextRegistry]_vars

\* Concurrent callers of connect, disconnect and the calls that use a
\* connection, on one name.
NextInFlight ==
    \/ \E c \in Callers : \E config \in {x \in Configs : x.command = "node"
                                                        /\ x.name = NameTestServer} :
           Connect(c, config)
    \/ \E c \in Callers : HandshakeReturns(c, {MsgConnectionFailed})
    \/ \E c \in Callers : CallTool(c, NameTestServer)
    \/ \E c \in Callers : CallToolWithRetry(c, NameTestServer)
    \/ \E c \in Callers : CallReturns(c, {"result"}, {MsgETIMEDOUT})
    \/ \E c \in Callers : CallToolWithRetryResume(c)
    \/ \E c \in Callers : SleepReturns(c)
    \/ \E c \in Callers : ListTools(c, NameTestServer)
    \/ \E c \in Callers : ListToolsReturns(c, {<<RemoteTestTool>>}, {MsgETIMEDOUT})
    \/ \E c \in Callers : Disconnect(c, NameTestServer)
    \/ \E c \in Callers : CloseReturns(c)
    \/ \E c \in Callers : Return(c)

SpecInFlight == Init /\ [][NextInFlight]_vars

\* createMCPToolAdapter on each file: documents of servers without env.
InitCreate ==
    /\ InitAdapter({[maxRetries |-> 1, initialDelayMs |-> 10, maxDelayMs |-> 100]})
    /\ NoCallers
    /\ probe \in {[fn |-> "createMCPToolAdapter", input |-> i, applied |-> FALSE,
                     pending |-> FALSE, output |-> <<>>, error |-> NoError] :
                        i \in {x \in LoaderInputs :
                                  /\ x.env = [n \in {} |-> <<>>]
                                  /\ \A k \in 1..Len(x.mcpServers) :
                                         x.mcpServers[k].env = NoEnv}}

NextCreate ==
    \/ CreateMCPToolAdapter
    \/ \E c \in Callers : CreateMCPToolAdapterConnects(c)
    \/ \E c \in Callers : Mapped /\ HandshakeReturns(c, ConnectErrors)
    \/ \E c \in Callers : Mapped /\ ConnectWithRetryResume(c)
    \/ \E c \in Callers : Mapped /\ SleepReturns(c)
    \/ CreateMCPToolAdapterReturns

SpecCreate == InitCreate /\ [][NextCreate]_vars

\* The Client objects in use or to be used: those that exist, and one for
\* every connect or connectWithRetry that has still to open its own.
ClientsInUse ==
    Cardinality({r \in Refs :
                    /\ clients[r].status # "free"
                    /\ ~\E c \in Callers : pc[c] = "connect_await" /\ frame[c].ref = r})
    + Cardinality({c \in Callers : pc[c] # "done" /\ Connecting(pc[c], frame[c])})

\* The steps the runtime takes for caller c without the caller: a pending
\* handshake, transport call, close or timer settles, or a continuation runs.
Progress(c) ==
    \/ HandshakeReturns(c, {MsgConnectionFailed})
    \/ ConnectWithRetryResume(c)
    \/ CallReturns(c, {"result"}, {MsgETIMEDOUT, MsgInvalidArgument})
    \/ CallToolWithRetryResume(c)
    \/ SleepReturns(c)
    \/ CloseReturns(c)

\* Concurrent callers of the retrying calls and of disconnect on one name; a
\* connectWithRetry starts only while a Client is left for it, so that no
\* call in flight ever waits for one.
NextLive ==
    \/ \E c \in Callers : \E config \in {x \in Configs : x.command = "node"
                                                        /\ x.name = NameTestServer} :
           ClientsInUse < MaxClients /\ ConnectWithRetry(c, config)
    \/ \E c \in Callers : CallToolWithRetry(c, NameTestServer)
    \/ \E c \in Callers : Disconnect(c, NameTestServer)
    \/ \E c \in Callers : Return(c)
    \/ \E c \in Callers : Progress(c)

\* Every pending promise of the transport and every timer settles, and every
\* continuation that can run does run.
Fairness == \A c \in Callers : WF_vars(Progress(c))

SpecLive == Init /\ [][NextLive]_vars /\ Fairness

\* The classifier alone, on each of the messages.
InitClassify ==
    /\ InitAdapter({[maxRetries |-> 1]})
    /\ NoCallers
    /\ probe \in {[fn |-> "isRetryableError", input |-> m, applied |-> FALSE,
                     pending |-> FALSE, output |-> FALSE, error |-> NoError] :
                        m \in Messages}

SpecClassify == InitClassify /\ [][Classify]_vars

\* One caller at a time of connect, disconnect, listTools and listAllTools.
NextTools ==
    \/ \E c \in Callers : \E config \in {x \in Configs : x.command = "node"} :
           Connect(c, config)
    \/ \E c \in Callers : HandshakeReturns(c, {MsgConnectionFailed})
    \/ \E c \in Callers : \E serverName \in Names : Disconnect(c, serverName)
    \/ \E c \in Callers : CloseReturns(c)
    \/ \E c \in Callers : \E serverName \in Names : ListTools(c, serverName)
    \/ \E c \in Callers : ListToolsReturns(c, ToolLists, {MsgETIMEDOUT})
    \/ \E c \in Callers : ListAllTools(c)
    \/ \E c \in Callers : ListAllToolsResume(c)
    \/ \E c \in Callers : Return(c)

SpecTools == InitClock /\ [][NextTools]_vars

\* The loader alone, on each file in each process environment.
InitConfig ==
    /\ InitAdapter({[maxRetries |-> 1]})
    /\ NoCallers
    /\ probe \in {[fn |-> "loadMCPConfig", input |-> i, applied |-> FALSE,
                     pending |-> FALSE, output |-> <<>>, error |-> NoError] :
                        i \in LoaderInputs}

SpecConfig == InitConfig /\ [][LoadMCPConfig]_vars

(* ------------------------------- claims ------------------------------- *)

\* Caller c's call of operation o has returned or thrown.
Finished(c, o) == pc[c] = "done" /\ frame[c].op = o

\* A transport answer that is an Error.
Failure(answer) == answer.kind = "throw"

StrNotConnectedWords == <<"n","o","t"," ","c","o","n","n","e","c","t","e","d">>

\* C1: when the first attempt of callToolWithRetry fails with a message the
\* classifier rates non-retryable, the call makes exactly one client.callTool
\* call, never sleeps, and returns that failure unchanged, whatever maxRetries.
C1_NonRetryableFailureIsNotRetried ==
    \A c \in Callers :
        (/\ frame[c].op = "callToolWithRetry"
         /\ Failure(hist[c].first)
         /\ ~isRetryableError(hist[c].first.error))
        => /\ hist[c].tcalls = 1
           /\ hist[c].attempts = 1
           /\ hist[c].sleeps = <<>>
           /\ pc[c] \in {"callTool_settled", "done"}
           /\ pc[c] = "done" =>
                  frame[c].result = Returned(FALSE, NoData, hist[c].first.error)

C1_Witness ==
    \E c \in Callers :
        /\ Finished(c, "callToolWithRetry")
        /\ Failure(hist[c].first)
        /\ ~isRetryableError(hist[c].first.error)
        /\ retryConfig.maxRetries >= 2

\* C2: callToolWithRetry makes at most maxRetries+1 client.callTool calls; a
\* success ends it: the k-th attempt being the first success, exactly k calls
\* were made, none follows, and the call returns success with that payload.
C2_RetriesUntilFirstSuccess ==
    \A c \in Callers :
        frame[c].op = "callToolWithRetry"
        => /\ hist[c].tcalls <= retryConfig.maxRetries + 1
           /\ hist[c].oks <= 1
           /\ hist[c].oks = 1 =>
                  /\ hist[c].last.kind = "return"
                  /\ hist[c].tcalls = hist[c].fails + 1
                  /\ hist[c].tcalls = hist[c].attempts
                  /\ pc[c] \in {"callTool_settled", "done"}
                  /\ pc[c] = "done" =>
                         frame[c].result = Returned(TRUE, hist[c].last.data, Undefined)

C2_Witness ==
    \E c \in Callers :
        /\ Finished(c, "callToolWithRetry")
        /\ hist[c].oks = 1
        /\ hist[c].fails = 2
        /\ isRetryableError(hist[c].first.error)
        /\ frame[c].result.success

\* C3: when the last of the maxRetries+1 attempts of callToolWithRetry has
\* failed with a retryable message, the call returns success:false with
\* "Failed after <maxRetries+1> attempts: <the last attempt's message>", the
\* count being the number of attempts made.
C3_ExhaustedRetriesReportLastError ==
    \A c \in Callers :
        (/\ Finished(c, "callToolWithRetry")
         /\ ~hist[c].settled.success
         /\ isRetryableError(hist[c].settled.error))
        => /\ hist[c].attempts = retryConfig.maxRetries + 1
           /\ frame[c].result =
                  Returned(FALSE, NoData,
                           StrFailedAfter \o NumberToString(hist[c].attempts)
                               \o StrAttempts \o hist[c].settled.error)

C3_Witness ==
    \E c \in Callers :
        /\ Finished(c, "callToolWithRetry")
        /\ ~hist[c].settled.success
        /\ isRetryableError(hist[c].settled.error)
        /\ hist[c].fails = 3
        /\ hist[c].first.error # hist[c].last.error

\* C4: connectWithRetry makes at most maxRetries+1 connect attempts (and
\* handshakes), makes none after one has succeeded and then returns, and
\* throws only after maxRetries+1 attempts have all failed.
C4_ConnectAttemptsBounded ==
    \A c \in Callers :
        frame[c].op = "connectWithRetry"
        => /\ hist[c].opens <= hist[c].attempts
           /\ hist[c].attempts <= retryConfig.maxRetries + 1
           /\ hist[c].oks <= 1
           /\ hist[c].settled.kind = "return" =>
                  /\ hist[c].opens = hist[c].fails + hist[c].oks
                  /\ pc[c] \in {"connect_settled", "done"}
                  /\ pc[c] = "done" => frame[c].result = ReturnedVoid
           /\ (pc[c] = "done" /\ frame[c].result.kind = "throw") =>
                  /\ hist[c].attempts = retryConfig.maxRetries + 1
                  /\ hist[c].fails = retryConfig.maxRetries + 1
                  /\ hist[c].oks = 0

C4_Witness ==
    \E c \in Callers :
        /\ Finished(c, "connectWithRetry")
        /\ frame[c].result.kind = "return"
        /\ hist[c].fails = 2
        /\ hist[c].attempts = 3

\* C5: a connectWithRetry that has used up its attempts throws "Failed to
\* connect to <name> after <maxRetries+1> attempts: <message of the last
\* handshake failure>", and has put no entry for the name in the registry.
C5_ExhaustedConnectReportsLastCause ==
    \A c \in Callers :
        (Finished(c, "connectWithRetry") /\ frame[c].result.kind = "throw")
        => /\ Failure(hist[c].last)
           /\ frame[c].result =
                  Thrown(StrFailedToConnect \o frame[c].name \o StrAfter
                             \o NumberToString(retryConfig.maxRetries + 1)
                             \o StrAttempts \o hist[c].last.error)
           /\ ~MapHas(connections, frame[c].name)
           /\ connections = hist[c].preConnections

C5_Witness ==
    \E c \in Callers :
        /\ Finished(c, "connectWithRetry")
        /\ frame[c].result.kind = "throw"
        /\ hist[c].fails = 3
        /\ hist[c].first.error # hist[c].last.error
        /\ connections # <<>>

\* C6: callTool on a name without a registry entry returns success:false with
\* an error containing "not connected", calls the transport not at all and
\* leaves the registry as it was.
C6_CallToolOnAbsentName ==
    \A c \in Callers :
        (Finished(c, "callTool") /\ ~MapHas(hist[c].preConnections, frame[c].name))
        => /\ frame[c].result.kind = "return"
           /\ ~frame[c].result.success
           /\ Contains(frame[c].result.error, StrNotConnectedWords)
           /\ hist[c].tcalls = 0 /\ hist[c].opens = 0 /\ hist[c].closes = 0
           /\ connections = hist[c].preConnections
           /\ objs = hist[c].preObjs

C6_Witness ==
    \E c \in Callers :
        /\ Finished(c, "callTool")
        /\ ~MapHas(hist[c].preConnections, frame[c].name)
        /\ connections # <<>>

\* C7: callTool and callToolWithRetry never throw: each ends by returning an
\* MCPToolResult, a failed one carrying an error message, and callTool's is
\* exactly the message of the transport's failure.
C7_InvocationNeverThrows ==
    \A c \in Callers :
        frame[c].op \in {"callTool", "callToolWithRetry"}
        => /\ pc[c] \in {"callTool_settled", "done"} =>
                  /\ frame[c].result.kind = "return"
                  /\ ~frame[c].result.success => frame[c].result.error # Undefined
           /\ (pc[c] = "done" /\ frame[c].op = "callTool" /\ Failure(hist[c].last)) =>
                  frame[c].result = Returned(FALSE, NoData, hist[c].last.error)

C7_Witness ==
    \E c \in Callers : \E d \in Callers :
        /\ Finished(c, "callTool")
        /\ Failure(hist[c].last)
        /\ Finished(d, "callToolWithRetry")
        /\ hist[d].tcalls = 0

\* C8: a callTool whose client.callTool succeeds returns success:true with
\* the response as data, and its entry's lastActivity is the time at which
\* the call was made and its retryCount is 0.
C8_SuccessfulCallUpdatesEntry ==
    \A c \in Callers :
        (Finished(c, "callTool") /\ hist[c].last.kind = "return")
        => LET connection == MapGet(connections, frame[c].name) IN
           /\ frame[c].result = Returned(TRUE, hist[c].last.data, Undefined)
           /\ connection # NoRef
           /\ objs[connection].lastActivity = hist[c].callAt
           /\ objs[connection].retryCount = 0

C8_Witness ==
    \E c \in Callers :
        /\ Finished(c, "callTool")
        /\ hist[c].last.kind = "return"
        /\ hist[c].callAt < now

\* C9: after a callTool whose client.callTool failed, the entry of the name is
\* in the registry with the handle, the descriptor and the connected flag it
\* had before the call: the failure does not mark it disconnected.
C9_FailedCallKeepsEntry ==
    \A c \in Callers :
        (Finished(c, "callTool") /\ Failure(hist[c].last))
        => LET connection == MapGet(connections, frame[c].name) IN
           /\ connection # NoRef
           /\ connection = MapGet(hist[c].preConnections, frame[c].name)
           /\ objs[connection].config = hist[c].preObjs[connection].config
           /\ objs[connection].connected = hist[c].preObjs[connection].connected
           /\ objs[connection].connected

C9_Witness ==
    \E c \in Callers :
        /\ Finished(c, "callTool")
        /\ Failure(hist[c].last)
        /\ MapHas(connections, frame[c].name)
        /\ Len(connections) = 2

\* C10: after a callTool on a connected entry has failed, the entry's
\* retryCount is one greater than before the call.
C10_FailedCallIncrementsRetryCount ==
    \A c \in Callers :
        (Finished(c, "callTool") /\ Failure(hist[c].last))
        => LET connection == MapGet(connections, frame[c].name) IN
           /\ connection # NoRef
           /\ objs[connection].retryCount =
                  hist[c].preObjs[connection].retryCount + 1

\* The entries of the registry are the ConnectionState objects they were at
\* the start of caller c's call.
EntriesKept(c) ==
    \A i \in 1..Len(connections) :
        objs[connections[i].ref] = hist[c].preObjs[connections[i].ref]

\* C11: a connect for a name whose entry is connected returns without a
\* transport open, handshake or close and leaves the registry and that
\* entry's object (handle, descriptor, lastActivity, retryCount) as they
\* were, whatever descriptor is passed; the name is listed once by
\* getConnectedServers().
C11_ConnectIsIdempotent ==
    \A c \in Callers :
        LET name == frame[c].config.name
            existing == MapGet(hist[c].preConnections, name)
        IN (/\ Finished(c, "connect")
            /\ existing # NoRef
            /\ hist[c].preObjs[existing].connected)
           => /\ frame[c].result = ReturnedVoid
              /\ hist[c].opens = 0
              /\ hist[c].closes = 0
              /\ connections = hist[c].preConnections
              /\ objs[existing] = hist[c].preObjs[existing]
              /\ Cardinality({i \in 1..Len(getConnectedServers) :
                                  getConnectedServers[i] = name}) = 1

C11_Witness ==
    \E c \in Callers :
        LET existing == MapGet(hist[c].preConnections, frame[c].config.name) IN
        /\ Finished(c, "connect")
        /\ existing # NoRef
        /\ frame[c].config # hist[c].preObjs[existing].config
        /\ hist[c].preObjs[existing].lastActivity < now

\* C12: a connect whose handshake fails throws the handshake's error, and
\* the registry is the one from before the call: the same entries in the
\* same order, each the object it was, none for the name that failed.
C12_FailedHandshakeLeavesRegistry ==
    \A c \in Callers :
        (Finished(c, "connect") /\ Failure(hist[c].last))
        => /\ frame[c].result = Thrown(hist[c].last.error)
           /\ connections = hist[c].preConnections
           /\ EntriesKept(c)
           /\ ~MapHas(connections, frame[c].config.name)

C12_Witness ==
    \E c \in Callers :
        /\ Finished(c, "connect")
        /\ Failure(hist[c].last)
        /\ Len(connections) >= 1

\* The handle r is open: its handshake succeeded and close was never called
\* on it.
OpenHandle(r) == clients[r].status = "open" /\ ~clients[r].closeCalled

\* C13: whenever no operation is in flight, every open handle is the handle
\* of the registry's entry for its name, whatever the interleaving of the
\* callers' operations was.
C13_NoHandleLeaked ==
    (\A c \in Callers : pc[c] \in {"off", "idle", "done"})
    => \A r \in Refs :
           OpenHandle(r) => \E i \in 1..Len(connections) : connections[i].ref = r

\* C14: the registry never holds two entries of one name, nor two entries
\* with the same handle.
C14_OneEntryPerNameAndHandle ==
    \A i \in 1..Len(connections) : \A j \in 1..Len(connections) :
        i # j => /\ connections[i].name # connections[j].name
                 /\ connections[i].ref # connections[j].ref

C14_Witness ==
    /\ Len(connections) = 2
    /\ \E c \in Callers :
           /\ pc[c] = "connect_await"
           /\ MapHas(connections, frame[c].config.name)

\* C15: a disconnect of a name that has no entry resolves, calls nothing on
\* any transport, and leaves the registry and its entries as they were.
C15_DisconnectAbsentIsNoOp ==
    \A c \in Callers :
        (Finished(c, "disconnect") /\ ~MapHas(hist[c].preConnections, frame[c].name))
        => /\ frame[c].result = ReturnedVoid
           /\ hist[c].closes = 0
           /\ hist[c].oks + hist[c].fails = 0
           /\ connections = hist[c].preConnections
           /\ EntriesKept(c)

C15_Witness ==
    \E c \in Callers :
        /\ Finished(c, "disconnect")
        /\ ~MapHas(hist[c].preConnections, frame[c].name)
        /\ Len(connections) >= 1

\* C16: a disconnect of a registered name calls close on its handle once and
\* resolves, whether close resolved or rejected; afterwards isConnected(name)
\* is false, getConnectionStats() has no key for the name, and the other
\* entries are as they were.
C16_DisconnectRemovesEntry ==
    \A c \in Callers :
        (Finished(c, "disconnect") /\ MapHas(hist[c].preConnections, frame[c].name))
        => /\ frame[c].result = ReturnedVoid
           /\ hist[c].closes = 1
           /\ ~isConnected(frame[c].name)
           /\ frame[c].name \notin DOMAIN getConnectionStats
           /\ connections = MapDelete(hist[c].preConnections, frame[c].name)

C16_Witness ==
    \E c \in Callers :
        /\ Finished(c, "disconnect")
        /\ MapHas(hist[c].preConnections, frame[c].name)
        /\ Failure(hist[c].last)
        /\ Len(connections) >= 1

\* C17: when a disconnectAll has returned and no connect of another caller
\* was in flight at any time since it started, the registry is empty:
\* getConnectedServers() lists nothing and getConnectionStats() has no key.
C17_DisconnectAllEmptiesRegistry ==
    \A c \in Callers :
        (Finished(c, "disconnectAll") /\ ~hist[c].connectSeen)
        => /\ frame[c].result = ReturnedVoid
           /\ getConnectedServers = <<>>
           /\ DOMAIN getConnectionStats = {}

C17_Witness ==
    \E c \in Callers : \E d \in Callers :
        /\ Finished(c, "disconnectAll")
        /\ ~hist[c].connectSeen
        /\ hist[c].closes = 2
        /\ pc[d] = "disconnect_await"

\* C18: disconnectAll calls close on the handle of every entry registered
\* when it is called, and each of its disconnects deletes its entry whether
\* its close resolved or rejected: disconnectAll resolves once every close
\* has settled, a rejected one included, and the registry is then empty.
C18_DisconnectAllIndependent ==
    \A c \in Callers :
        frame[c].op = "disconnectAll"
        => /\ hist[c].closes = Len(hist[c].preConnections)
           /\ \A p \in frame[c].pending : clients[p.ref].closeCalled
           /\ MapKeySet(connections) = {p.name : p \in frame[c].pending}
           /\ pc[c] = "done" =>
                  /\ frame[c].result = ReturnedVoid
                  /\ hist[c].oks + hist[c].fails = Len(hist[c].preConnections)
                  /\ connections = <<>>

C18_Witness ==
    \E c \in Callers :
        /\ Finished(c, "disconnectAll")
        /\ hist[c].fails >= 1
        /\ hist[c].oks >= 1

RECURSIVE Pow(_, _)
Pow(b, e) == IF e = 0 THEN 1 ELSE b * Pow(b, e - 1)

\* The retry loops.
RetryOps == {"connectWithRetry", "callToolWithRetry"}

\* C19: the i-th sleep (counted from 0) of connectWithRetry and of
\* callToolWithRetry is requested for
\* min(initialDelayMs * backoffMultiplier^i, maxDelayMs) milliseconds.
C19_BackoffDelays ==
    \A c \in Callers :
        frame[c].op \in RetryOps
        => \A i \in 1..Len(hist[c].sleeps) :
               hist[c].sleeps[i] =
                   Min(retryConfig.initialDelayMs
                           * Pow(retryConfig.backoffMultiplier, i - 1),
                       retryConfig.maxDelayMs)

\* C20: the retry loops sleep once between two consecutive attempts and
\* not otherwise: while a loop sleeps it has slept as often as it has
\* attempted, at every other point once less, so a finished run of k attempts
\* has slept k-1 times; a run that exhausts its attempts has slept
\* maxRetries times.
C20_OneSleepBetweenAttempts ==
    \A c \in Callers :
        frame[c].op \in RetryOps
        => /\ pc[c] = "sleep" => Len(hist[c].sleeps) = hist[c].attempts
           /\ pc[c] # "sleep" => Len(hist[c].sleeps) = hist[c].attempts - 1
           /\ (/\ pc[c] = "done"
               /\ frame[c].result \in
                     {failedAfterResult(retryConfig, frame[c].lastError),
                      failedToConnectError(retryConfig, frame[c].config.name,
                                           frame[c].lastError)})
              => Len(hist[c].sleeps) = retryConfig.maxRetries

C20_Witness ==
    \E c \in Callers :
        /\ Finished(c, "callToolWithRetry")
        /\ hist[c].attempts = 3
        /\ hist[c].oks = 1
        /\ Len(hist[c].sleeps) = 2

\* Two characters that are the same letter, in either case, or the same
\* character.
SameLetter(x, y) ==
    x = y \/ \E i \in 1..26 : {x, y} = {UpperCase[i], LowerCase[i]}

\* The word is written in message m from position i + 1 on, in any case.
WrittenAt(m, word, i) ==
    /\ i + Len(word) <= Len(m)
    /\ \A j \in 1..Len(word) : SameLetter(m[i + j], word[j])

Mentions(m, word) == \E i \in 0..Len(m) : WrittenAt(m, word, i)

\* "connection", and later on the same line "refused".
MentionsConnectionRefused(m) ==
    \E i \in 0..Len(m) : \E k \in 0..Len(m) :
        /\ WrittenAt(m, <<"c","o","n","n","e","c","t","i","o","n">>, i)
        /\ k >= i + 10
        /\ WrittenAt(m, <<"r","e","f","u","s","e","d">>, k)
        /\ \A x \in (i + 11)..k : m[x] \notin {"\n", "\r"}

RetryableKeywords ==
    {<<"t","i","m","e","o","u","t">>,
     <<"e","c","o","n","n","r","e","s","e","t">>,
     <<"e","c","o","n","n","r","e","f","u","s","e","d">>,
     <<"e","t","i","m","e","d","o","u","t">>,
     <<"n","e","t","w","o","r","k">>,
     <<"u","n","a","v","a","i","l","a","b","l","e">>}

\* C21: isRetryableError is true exactly for the messages that mention, in
\* any case, timeout, ECONNRESET, ECONNREFUSED, ETIMEDOUT, network or
\* unavailable, or connection followed by refused; it is false for undefined,
\* for the empty string and for every other message.
C21_ClassifierIsExact ==
    (probe.fn = "isRetryableError" /\ probe.applied)
    => probe.output =
           (/\ probe.input # Undefined
            /\ probe.input # <<>>
            /\ \/ \E word \in RetryableKeywords : Mentions(probe.input, word)
               \/ MentionsConnectionRefused(probe.input))

C21_Witness ==
    /\ probe.fn = "isRetryableError"
    /\ probe.applied
    /\ probe.output
    /\ probe.input = <<"E","r","r","o","r",":"," ","C","O","N","N","E","C","T","I","O","N"," ","W","A","S"," ","R","E","F","U","S","E","D"," ","(","c","o","d","e"," ","7",")">>

\* C22: a callToolWithRetry on a name that has no registry entry makes one
\* attempt, does not sleep, and returns that attempt's "not connected"
\* failure, whatever the name.
C22_MissingServerIsNotRetried ==
    \A c \in Callers :
        (/\ frame[c].op = "callToolWithRetry"
         /\ ~MapHas(hist[c].preConnections, frame[c].name))
        => /\ hist[c].attempts = 1
           /\ hist[c].sleeps = <<>>
           /\ pc[c] = "done" => frame[c].result = notConnectedResult(frame[c].name)

StrIsDisconnectedWords == <<"i","s"," ","d","i","s","c","o","n","n","e","c","t","e","d">>

\* Caller c takes a step of a call of operation o: the step that starts the
\* call, or one that resumes it.
StepOf(c, o) ==
    /\ <<pc[c], frame[c]>> # <<pc'[c], frame'[c]>>
    /\ frame[c].op = o \/ frame'[c].op = o

\* C23: no step of a callTool opens a transport, calls close or changes the
\* registry, whatever the other callers do meanwhile; a callTool that finds
\* an entry with connected == false returns at once, without a transport
\* call, a failure whose error contains "is disconnected".
C23_CallToolNeverReconnects ==
    [][\A c \in Callers :
           StepOf(c, "callTool")
           => /\ connections' = connections
              /\ hist'[c].opens = 0
              /\ hist'[c].closes = 0
              /\ \A r \in Refs :
                     clients'[r].status # "free"
                     => /\ clients[r].status = clients'[r].status
                        /\ clients[r].closeCalled = clients'[r].closeCalled
              /\ LET connection == MapGet(connections, frame'[c].name) IN
                 (/\ pc[c] = "idle"
                  /\ connection # NoRef
                  /\ ~objs[connection].connected)
                 => /\ pc'[c] = "done"
                    /\ hist'[c].tcalls = 0
                    /\ ~frame'[c].result.success
                    /\ Contains(frame'[c].result.error, StrIsDisconnectedWords)]_vars

C23_Witness ==
    \E c \in Callers : \E d \in Callers :
        /\ Finished(c, "callTool")
        /\ Failure(hist[c].last)
        /\ MapHas(connections, frame[c].name)
        /\ pc[d] = "connect_await"

\* The transport calls of caller c's call that have not settled.
InFlight(g) == g.tcalls - (g.oks + g.fails)

\* C25: a callToolWithRetry never has two client.callTool calls in flight,
\* and a new attempt begins only with the call itself or when a backoff
\* sleep ends, the attempt before it having returned a failure and that
\* sleep being the one that followed it; so it is for every caller when
\* several run callToolWithRetry on the same name.
C25_AttemptsAreSequential ==
    [][\A c \in Callers :
           frame'[c].op = "callToolWithRetry"
           => /\ InFlight(hist'[c]) \in {0, 1}
              /\ InFlight(hist'[c]) = 1 <=> pc'[c] = "callTool_await"
              /\ hist'[c].attempts > hist[c].attempts
                 => \/ pc[c] = "idle"
                    \/ /\ pc[c] = "sleep"
                       /\ InFlight(hist[c]) = 0
                       /\ hist[c].settled.kind = "return"
                       /\ ~hist[c].settled.success
                       /\ Len(hist[c].sleeps) = hist[c].attempts]_vars

C25_Witness ==
    \E c \in Callers : \E d \in Callers \ {c} :
        /\ frame[c].op = "callToolWithRetry"
        /\ frame[d].op = "callToolWithRetry"
        /\ frame[c].name = frame[d].name
        /\ pc[c] = "callTool_await"
        /\ pc[d] = "callTool_await"
        /\ hist[c].attempts = 2
        /\ hist[d].attempts = 2

\* C26: listTools always returns a list and never throws.  The list is empty,
\* with no transport call, when the name has no entry or its entry is
\* disconnected; it is empty when client.listTools rejected; otherwise it has,
\* for each tool of the response and in the response's order, that tool's
\* name, description and inputSchema and nothing else.  No step of it opens or
\* closes a transport, and the registry is the one from before the call.
C26_ListToolsNeverFails ==
    \A c \in Callers :
        frame[c].op = "listTools"
        => LET existing == MapGet(hist[c].preConnections, frame[c].name)
               absent == existing = NoRef \/ ~hist[c].preObjs[existing].connected
               answer == hist[c].last
               tools == frame[c].result.data
           IN /\ hist[c].opens = 0
              /\ hist[c].closes = 0
              /\ connections = hist[c].preConnections
              /\ absent => hist[c].tcalls = 0 /\ pc[c] = "done"
              /\ pc[c] = "done"
                 => /\ frame[c].result.kind = "return"
                    /\ absent => tools = <<>>
                    /\ (~absent /\ Failure(answer)) => tools = <<>>
                    /\ (~absent /\ ~Failure(answer))
                       => /\ hist[c].tcalls = 1
                          /\ Len(tools) = Len(answer.data)
                          /\ \A i \in 1..Len(tools) :
                                 /\ DOMAIN tools[i] = {"name", "description", "inputSchema"}
                                 /\ tools[i].name = answer.data[i].name
                                 /\ tools[i].description = answer.data[i].description
                                 /\ tools[i].inputSchema = answer.data[i].inputSchema

C26_Witness ==
    \E c \in Callers :
        /\ Finished(c, "listTools")
        /\ hist[c].last.kind = "return"
        /\ Len(frame[c].result.data) = 2
        /\ frame[c].result.data[1].name = "other_tool"

\* C27: with one caller at a time, listAllTools returns a Map whose keys are
\* the registry's names, in the registry's order, and it stores under each
\* name what its listTools call for that name settled with: a server whose
\* query failed is in the Map with an empty list.
C27_ListAllToolsCoversRegistry ==
    \A c \in Callers :
        frame[c].op = "listAllTools"
        => LET allTools == frame[c].allTools IN
           /\ connections = hist[c].preConnections
           /\ Len(allTools) = frame[c].cursor
           /\ \A i \in 1..Len(allTools) : allTools[i].name = connections[i].name
           /\ (Len(allTools) >= 1 /\ pc[c] # "listTools_settled")
              => /\ allTools[Len(allTools)].tools = hist[c].settled.data
                 /\ Failure(hist[c].last) => allTools[Len(allTools)].tools = <<>>
           /\ pc[c] = "done"
              => /\ frame[c].result = Returned(TRUE, allTools, Undefined)
                 /\ {allTools[i].name : i \in 1..Len(allTools)} = MapKeySet(connections)
                 /\ hist[c].tcalls = Len(connections)

C27_Witness ==
    \E c \in Callers :
        /\ Finished(c, "listAllTools")
        /\ Len(frame[c].result.data) = 2
        /\ hist[c].fails = 1
        /\ frame[c].result.data[1].tools # <<>>
        /\ frame[c].result.data[2].tools = <<>>

\* C28: getConnectionStats() has the registry's names as its keys and under
\* each the connected, lastActivity and retryCount of that entry and no other
\* field; getConnectedServers() lists, once each, the names whose entry is
\* connected; and when a connect whose handshake succeeded has returned, the
\* statistics of its name show connected == true and retryCount == 0.
C28_StatsReflectRegistry ==
    LET stats == getConnectionStats
        listed == getConnectedServers
    IN /\ DOMAIN stats = MapKeySet(connections)
       /\ \A i \in 1..Len(connections) :
              LET state == objs[connections[i].ref]
                  entry == stats[connections[i].name]
              IN /\ DOMAIN entry = {"connected", "lastActivity", "retryCount"}
                 /\ entry.connected = state.connected
                 /\ entry.lastActivity = state.lastActivity
                 /\ entry.retryCount = state.retryCount
       /\ {listed[i] : i \in 1..Len(listed)} =
              {connections[i].name : i \in {j \in 1..Len(connections) :
                                               objs[connections[j].ref].connected}}
       /\ \A i \in 1..Len(listed) : \A j \in 1..Len(listed) :
              listed[i] = listed[j] => i = j
       /\ \A c \in Callers :
              (Finished(c, "connect") /\ hist[c].last.kind = "return")
              => /\ frame[c].config.name \in DOMAIN stats
                 /\ stats[frame[c].config.name].connected
                 /\ stats[frame[c].config.name].retryCount = 0
                 /\ stats[frame[c].config.name].lastActivity <= now

C28_Witness ==
    \E c \in Callers :
        /\ Finished(c, "connect")
        /\ hist[c].last.kind = "return"
        /\ Len(getConnectedServers) = 2
        /\ getConnectionStats[NameTestServer].lastActivity
               # getConnectionStats[NameNetwork].lastActivity

\* The servers of a document that are not marked disabled.
Enabled(servers) == {i \in 1..Len(servers) : servers[i].disabled # "true"}

\* C29: loadMCPConfig returns, for every server of the document that is not
\* marked disabled, exactly one descriptor with its name, command and args,
\* and none for a server marked disabled: as many descriptors as there are
\* servers not marked disabled.
C29_LoaderDropsDisabled ==
    (probe.fn = "loadMCPConfig" /\ probe.applied /\ probe.input.file = FileDocument)
    => LET servers == probe.input.mcpServers
           configs == probe.output
       IN /\ probe.error = NoError
          /\ Len(configs) = Cardinality(Enabled(servers))
          /\ \A i \in Enabled(servers) :
                 Cardinality({k \in 1..Len(configs) :
                                 /\ configs[k].name = servers[i].name
                                 /\ configs[k].command = servers[i].command
                                 /\ configs[k].args = servers[i].args}) = 1
          /\ \A i \in (1..Len(servers)) \ Enabled(servers) :
                 \A k \in 1..Len(configs) : configs[k].name # servers[i].name

C29_Witness ==
    /\ probe.fn = "loadMCPConfig"
    /\ probe.applied
    /\ Len(probe.input.mcpServers) = 2
    /\ probe.input.mcpServers[1].disabled = "absent"
    /\ probe.input.mcpServers[2].disabled = "true"
    /\ Len(probe.output) = 1
    /\ probe.output[1].name = NameTestServer

\* The value with every ${NAME} placeholder from position i on replaced by
\* the value NAME has in the environment, or by nothing when NAME is unset.
RECURSIVE Substituted(_, _, _)
Substituted(s, i, penv) ==
    IF i > Len(s) THEN <<>>
    ELSE LET k == MatchEnd(s, i)
             NAME == SubSeq(s, i + 2, k - 1)
         IN IF k = 0 THEN <<s[i]>> \o Substituted(s, i + 1, penv)
            ELSE (IF NAME \in DOMAIN penv THEN penv[NAME] ELSE <<>>)
                     \o Substituted(s, k + 1, penv)

\* C30: in every descriptor loadMCPConfig returns, the env has the keys of
\* the server's env in the document, and under each key the document's value
\* with every ${NAME} placeholder replaced by the process environment's
\* value of NAME, or by the empty string when NAME is unset; a value without
\* a placeholder is the document's value.
C30_EnvPlaceholdersResolved ==
    (probe.fn = "loadMCPConfig" /\ probe.applied /\ probe.input.file = FileDocument)
    => LET servers == probe.input.mcpServers
           penv == probe.input.env
           configs == probe.output
       IN \A k \in 1..Len(configs) : \A i \in Enabled(servers) :
              configs[k].name = servers[i].name
              => /\ configs[k].env.present = servers[i].env.present
                 /\ Len(configs[k].env.pairs) = Len(servers[i].env.pairs)
                 /\ \A j \in 1..Len(servers[i].env.pairs) :
                        /\ configs[k].env.pairs[j].key = servers[i].env.pairs[j].key
                        /\ configs[k].env.pairs[j].value =
                               Substituted(servers[i].env.pairs[j].value, 1, penv)

\* C31: loadMCPConfig fails with a ConfigError, and returns no descriptors,
\* whenever the file cannot be read, is not valid JSON, or is a readable
\* document that lacks the server mapping.
C31_UnusableSourceIsConfigError ==
    (probe.fn = "loadMCPConfig" /\ probe.applied /\ probe.input.file \in UnusableFiles)
    => /\ probe.error = "ConfigError"
       /\ probe.output = <<>>

\* Caller c is inside a call of operation o that has not settled.
Running(c, o) == frame[c].op = o /\ pc[c] \notin {"off", "idle", "done"}

\* C32: every connectWithRetry and every callToolWithRetry makes at most
\* maxRetries + 1 attempts and, while every handshake, transport call and
\* sleep eventually returns, eventually settles (returns or throws), also
\* with another caller operating on the same name.
C32_RetryCallsTerminate ==
    \A c \in Callers : \A o \in RetryOps :
        Running(c, o)
            ~> (Finished(c, o) /\ hist[c].attempts <= retryConfig.maxRetries + 1)

C32_Witness ==
    \E c \in Callers : \E d \in Callers \ {c} :
        /\ Finished(c, "callToolWithRetry")
        /\ hist[c].attempts = retryConfig.maxRetries + 1
        /\ Len(hist[c].sleeps) = retryConfig.maxRetries
        /\ Running(d, "connectWithRetry")
        /\ hist[d].attempts = retryConfig.maxRetries + 1

\* The connectWithRetry calls of createMCPToolAdapter that returned.
Connected == {c \in Callers : pc[c] = "done" /\ frame[c].result.kind = "return"}

\* C33: for a loadable config createMCPToolAdapter resolves, also when
\* connectWithRetry failed for some or all servers; it ran connectWithRetry
\* for exactly the servers not marked disabled, and the returned adapter's
\* registry holds exactly those for which it succeeded, none of them marked
\* disabled.
C33_CreateKeepsConnectedServers ==
    (probe.fn = "createMCPToolAdapter" /\ probe.applied
        /\ probe.input.file = FileDocument)
    => LET servers == probe.input.mcpServers IN
       /\ probe.error = NoError
       /\ {frame[c].config.name : c \in {d \in Callers : pc[d] = "done"}}
              = {servers[i].name : i \in Enabled(servers)}
       /\ MapKeySet(connections) = {frame[c].config.name : c \in Connected}
       /\ \A i \in 1..Len(servers) :
              servers[i].disabled = "true" => ~isConnected(servers[i].name)

C33_Witness ==
    /\ probe.fn = "createMCPToolAdapter"
    /\ probe.applied
    /\ probe.error = NoError
    /\ Len(probe.input.mcpServers) = 2
    /\ Enabled(probe.input.mcpServers) = {1, 2}
    /\ Cardinality(Connected) = 1
    /\ \E c \in Callers :
           /\ Finished(c, "connectWithRetry")
           /\ frame[c].result.kind = "throw"
           /\ hist[c].attempts = retryConfig.maxRetries + 1

\* C34: in every reachable state every registry entry has connected == true;
\* so isConnected(name) holds exactly when name has an entry, no callTool
\* result is the "is disconnected" failure, and no callToolWithRetry opens
\* a transport or calls close (it never reconnects).
C34_EntriesAreConnected ==
    /\ \A i \in 1..Len(connections) : objs[connections[i].ref].connected
    /\ \A name \in Names : isConnected(name) <=> MapHas(connections, name)
    /\ \A c \in Callers :
           /\ ~Contains(frame[c].result.error, StrIsDisconnectedWords)
           /\ ~Contains(hist[c].settled.error, StrIsDisconnectedWords)
           /\ frame[c].op = "callToolWithRetry"
              => /\ hist[c].opens = 0
                 /\ hist[c].closes = 0
                 /\ pc[c] \notin {"connect_await", "disconnect_await"}

C34_Witness ==
    \E c \in Callers : \E d \in Callers \ {c} :
        /\ Finished(c, "callToolWithRetry")
        /\ ~frame[c].result.success
        /\ hist[c].tcalls = retryConfig.maxRetries + 1
        /\ hist[c].fails = retryConfig.maxRetries + 1
        /\ Finished(d, "callTool")
        /\ hist[d].fails = 1
        /\ isConnected(NameTestServer)

\* C35: after connect(config) has returned without an error, and while no
\* other caller has called disconnect or disconnectAll since that return,
\* the name is registered and connected.
C35_ReturnedConnectStaysRegistered ==
    \A c \in Callers :
        (/\ Finished(c, "connect")
         /\ frame[c].result.kind = "return"
         /\ ~hist[c].disconnectAfter)
        => isConnected(frame[c].config.name)

\* Caller c starts a transport call (client.callTool or client.listTools) in
\* this step.
StartsTransportCall(c) ==
    /\ pc'[c] \in {"callTool_await", "listTools_await"}
    /\ hist'[c].tcalls > hist[c].tcalls

\* C36: no callTool and no listTools starts a transport call on a handle
\* whose close has already been requested by a disconnect.
C36_NoCallOnClosingHandle ==
    [][\A c \in Callers :
           StartsTransportCall(c) => ~clients[frame'[c].ref].closeCalled]_vars

\* C37: a name enters the registry only in the step in which the handshake
\* of a connect for it succeeds; no step of a callTool, a callToolWithRetry
\* or a listTools adds an entry or changes one, also when the connection
\* the call uses was disconnected while the call was in flight.
C37_OnlyConnectInserts ==
    [][/\ \A name \in Names :
              (~MapHas(connections, name) /\ MapHas(connections', name))
              => \E c \in Callers :
                     /\ pc[c] = "connect_await"
                     /\ frame[c].config.name = name
                     /\ hist'[c].oks = hist[c].oks + 1
                     /\ MapGet(connections', name) = frame[c].ref
       /\ \A c \in Callers :
              (\/ StepOf(c, "callTool")
               \/ StepOf(c, "callToolWithRetry")
               \/ StepOf(c, "listTools"))
              => \A name \in Names :
                     MapHas(connections', name)
                     => MapGet(connections', name) = MapGet(connections, name)]_vars

C37_Witness ==
    \E c \in Callers : \E d \in Callers \ {c} :
        /\ Finished(c, "listTools")
        /\ hist[c].tcalls = 1
        /\ hist[c].oks = 1
        /\ ~hist[c].disconnectAfter
        /\ Finished(d, "disconnect")
        /\ hist[d].closes = 1
        /\ ~MapHas(connections, frame[c].name)

\* C39: a name for which a connect returned while a disconnectAll was in
\* progress is neither closed nor removed by that disconnectAll: as long as
\* no caller has called disconnect or disconnectAll since that connect
\* returned, the name is registered and connected, at the return of the
\* disconnectAll too, and close has not been called on its client.
C39_DisconnectAllSparesNewConnections ==
    \A d \in Callers : \A c \in Callers \ {d} :
        (/\ frame[d].op = "disconnectAll"
         /\ Finished(c, "connect")
         /\ frame[c].result.kind = "return"
         /\ frame[c].config.name \in hist[d].completed
         /\ ~hist[c].disconnectAfter)
        => /\ isConnected(frame[c].config.name)
           /\ ~clients[MapGet(connections, frame[c].config.name)].closeCalled

====
